---- MODULE Spec2Model ----
(***************************************************************************)
(* Account + Business bootstrap, authentication and business settings of   *)
(* the Brillix backend (Express handlers over two Mongoose collections).   *)
(*                                                                         *)
(* Strings that the code inspects (length, case, emptiness, character      *)
(* classes) are sequences of one-character strings, so that trim,          *)
(* toLowerCase, length and the password pattern are computed.  A request   *)
(* field that is undefined or "" is the empty sequence: both are falsy in  *)
(* JavaScript and both fail notEmpty().                                    *)
(***************************************************************************)
EXTENDS Integers, Sequences, FiniteSets, TLC

(***************************************************************************)
(* Bounds of the model.                                                    *)
(***************************************************************************)
MaxUsers == 2      \* documents per collection (committed or staged)
MaxClock == 1      \* the wall clock runs 0..MaxClock
MaxSalt  == 1      \* bcrypt.genSalt draws from 1..MaxSalt
MaxVersion == 2    \* the revision counter __v of a Business runs 0..MaxVersion

(***************************************************************************)
(* Program constants.                                                      *)
(***************************************************************************)
RegisterPasswordMin == 8     \* registerValidation: isLength({ min: 8 })
SchemaPasswordMin   == 8     \* userSchema.password.minlength
RotationPasswordMin == 6     \* updatePassword: newPassword.length < 6
NameMin             == 2     \* registerValidation: isLength({ min: 2, ... })
ApiMax              == 100   \* apiLimiter: max
AuthMax             == 5     \* authLimiter: max
RegisterMax         == 3     \* registerLimiter: max

Procs == {"r1", "r2"}        \* register requests that may be in flight together
Single == {"r1"}             \* one register request at a time

UserIds == {<<"User", k>> : k \in 1..MaxUsers}
BusinessIds == {<<"Business", k>> : k \in 1..MaxUsers}
NoId == <<"null", 0>>
Salts == 1..MaxSalt
Times == 0..MaxClock
NoTime == -1

(***************************************************************************)
(* Character-level helpers.                                                *)
(***************************************************************************)
Absent == <<>>

\* String.prototype.toLowerCase on one character of the alphabet in use.
LowerChar(c) ==
  CASE c = "A" -> "a"
    [] c = "B" -> "b"
    [] c = "T" -> "t"
    [] c = "X" -> "x"
    [] OTHER -> c

\* String.prototype.toUpperCase on one character of the alphabet in use.
UpperChar(c) ==
  CASE c = "a" -> "A"
    [] c = "b" -> "B"
    [] c = "t" -> "T"
    [] c = "x" -> "X"
    [] OTHER -> c

ToUpper(s) == [i \in 1..Len(s) |-> UpperChar(s[i])]

ToLower(s) == [i \in 1..Len(s) |-> LowerChar(s[i])]

RECURSIVE TrimLeft(_)
TrimLeft(s) == IF s # <<>> /\ Head(s) = " " THEN TrimLeft(Tail(s)) ELSE s

RECURSIVE TrimRight(_)
TrimRight(s) ==
  IF s # <<>> /\ s[Len(s)] = " " THEN TrimRight(SubSeq(s, 1, Len(s) - 1)) ELSE s

Trim(s) == TrimRight(TrimLeft(s))

IsLowerCh(c) == c \in {"a", "b", "c", "x"}
IsUpperCh(c) == c \in {"A", "B"}
IsDigitCh(c) == c \in {"1", "2"}

\* JavaScript truthiness of a string-valued body field.
Truthy(s) == s # <<>>

(***************************************************************************)
(* Request values.                                                         *)
(***************************************************************************)
NameJo   == <<"J", "o">>
NameJ    == <<"J">>
ShopName == <<"S", "h", "o", "p">>

EmailA      == <<"a", "@", "x", ".", "c", "c">>
EmailAUpper == <<"A", "@", "x", ".", "c", "c">>
EmailB      == <<"b", "@", "x", ".", "c", "c">>
EmailBad    == <<"a", "x">>

PwShort == <<"A", "a", "1">>
PwSix   == <<"A", "a", "1", "a", "a", "a">>
PwWeak  == <<"a", "a", "a", "a", "a", "a", "a", "a">>
PwOne   == <<"A", "a", "1", "a", "a", "a", "a", "a">>
PwTwo   == <<"B", "b", "2", "b", "b", "b", "b", "b">>

Retail == <<"r", "e", "t", "a", "i", "l">>
Other  == <<"o", "t", "h", "e", "r">>
Bogus  == <<"b", "o", "g", "u", "s">>

\* businessSchema.industry.enum / registerValidation isIn(...), restricted to
\* the values requests carry here.
IndustryEnum == {Retail, Other}

\* Register requests: the complete ones, and for each required field and
\* each validation rule a request that differs from a complete one there.
CompleteRegisterBodies ==
  [firstName : {NameJo}, lastName : {NameJo},
   email : {EmailA, EmailAUpper, EmailB},
   password : {PwOne, PwTwo},
   businessName : {ShopName},
   industry : {Absent},
   businessEmail : {Absent, EmailBad}]

BaseRegisterBodies ==
  {b \in CompleteRegisterBodies :
     b.email = EmailA /\ b.businessEmail = Absent /\ b.password = PwOne}

RegisterBodies ==
  CompleteRegisterBodies
    \cup {[b EXCEPT !.firstName = Absent] : b \in BaseRegisterBodies}
    \cup {[b EXCEPT !.lastName = v] : b \in BaseRegisterBodies, v \in {Absent, NameJ}}
    \cup {[b EXCEPT !.email = v] : b \in BaseRegisterBodies, v \in {Absent, EmailBad}}
    \cup {[b EXCEPT !.password = v] : b \in BaseRegisterBodies,
                                      v \in {Absent, PwShort, PwWeak}}
    \cup {[b EXCEPT !.businessName = Absent] : b \in BaseRegisterBodies}
    \cup {[b EXCEPT !.industry = Bogus] : b \in BaseRegisterBodies}
    \cup {[b EXCEPT !.firstName = Absent, !.password = Absent,
                    !.businessName = Absent] : b \in BaseRegisterBodies}

LoginBodies ==
  [email : {EmailA, EmailAUpper, EmailB}, password : {PwWeak, PwOne, PwTwo}]
    \cup [email : {Absent, EmailBad}, password : {PwOne}]
    \cup [email : {EmailA}, password : {Absent}]

\* Profile updates: `owner` and `isActive` are fields a client may send and
\* the handler does not read.
ShopTwo == <<"S", "h", "o", "p", "2">>

\* A field the body does not carry, where the handler tests
\* `!== undefined`.
NotSent == <<"undefined">>

ProfileBody(name, industry, owner, isActive) ==
  [name |-> name, industry |-> industry, owner |-> owner, isActive |-> isActive,
   currency |-> Absent, registrationNumber |-> NotSent,
   subscriptionStatus |-> Absent, subscriptionPlan |-> Absent,
   businessId |-> NoId]

UpdateProfileBodies ==
  {ProfileBody(Absent, Absent, NoId, "undefined"),
   ProfileBody(ShopTwo, Absent, NoId, "undefined"),
   ProfileBody(Absent, Bogus, NoId, "undefined"),
   ProfileBody(ShopTwo, Absent, <<"User", 1>>, "false"),
   ProfileBody(Absent, Absent, <<"User", 2>>, "undefined")}

\* Profile updates that the store refuses, and two that it takes: a name of
\* 101 characters, an industry and a currency outside their enumerations, a
\* registration number.
LongName == [i \in 1..101 |-> "x"]
RegNumber == <<"R", "C", "1">>
RegNumberPad == <<" ", "R", "C", "1">>
Dollar == <<"U", "S", "D">>

ProfileFieldBodies ==
  {ProfileBody(ShopTwo, Absent, NoId, "undefined"),
   ProfileBody(LongName, Absent, NoId, "undefined"),
   ProfileBody(ShopTwo, Bogus, NoId, "undefined"),
   [ProfileBody(ShopTwo, Absent, NoId, "undefined") EXCEPT !.currency = Bogus],
   [ProfileBody(Absent, Absent, NoId, "undefined") EXCEPT !.currency = Dollar],
   [ProfileBody(ShopTwo, Absent, NoId, "undefined") EXCEPT
      !.registrationNumber = RegNumber],
   [ProfileBody(Absent, Retail, NoId, "undefined") EXCEPT
      !.registrationNumber = RegNumberPad]}

\* Profile updates and preference replacements that name another tenant:
\* an owner, an active flag, subscription fields and the id of a business.
ForeignProfileBody(k) ==
  [ProfileBody(ShopTwo, Absent, <<"User", k>>, "false") EXCEPT
     !.subscriptionStatus = "active", !.subscriptionPlan = "premium",
     !.businessId = <<"Business", k>>]

TenantProfileBodies == {ForeignProfileBody(k) : k \in 1..MaxUsers}

\* Preference elements as requests carry them: an optional boolean is
\* "undefined", "true" or "false".
Toys     == <<"T", "o", "y", "s">>
ToysPad  == <<" ", "T", "o", "y", "s">>
ToysLow  == <<"t", "o", "y", "s">>
Box      == <<"B", "o", "x">>
Pack     == <<"P", "a", "c", "k">>
AbbrBx   == <<"b", "x">>
AbbrBX   == <<"B", "X">>
Kit      == <<"K", "i", "t">>
Blank    == <<" ">>

Category(name) == [name |-> name, color |-> Absent, isActive |-> "undefined"]
Unit(name, abbreviation) ==
  [name |-> name, abbreviation |-> abbreviation, type |-> Absent,
   isActive |-> "undefined"]
ProductType(name) ==
  [name |-> name, requiresSerialNumber |-> "undefined",
   requiresExpiryDate |-> "undefined", trackInventory |-> "undefined",
   isActive |-> "undefined"]

NotSupplied == [kind |-> "undefined", items |-> <<>>]
Array(items) == [kind |-> "array", items |-> items]
NotAnArray == [kind |-> "string", items |-> <<>>]

UpdatePreferencesBodies ==
  {[categories |-> NotSupplied, units |-> NotSupplied, productTypes |-> NotSupplied],
   [categories |-> Array(<<Category(ToysPad)>>), units |-> NotSupplied,
    productTypes |-> NotSupplied],
   [categories |-> Array(<<Category(Toys), Category(ToysLow)>>),
    units |-> NotSupplied, productTypes |-> NotSupplied],
   [categories |-> Array(<<Category(Toys)>>),
    units |-> Array(<<Unit(Box, AbbrBx), Unit(Pack, AbbrBX)>>),
    productTypes |-> NotSupplied],
   [categories |-> NotSupplied, units |-> NotAnArray, productTypes |-> NotSupplied],
   [categories |-> NotSupplied, units |-> NotSupplied,
    productTypes |-> Array(<<ProductType(Absent)>>)]}

\* The requests to the route when requests run together: the ones above,
\* an empty array, two collections that are accepted, and a later
\* collection that fails after an earlier one passed.
ReplaceBodies ==
  UpdatePreferencesBodies \cup
  {[categories |-> Array(<<>>), units |-> NotSupplied, productTypes |-> NotSupplied],
   [categories |-> NotSupplied,
    units |-> Array(<<Unit(Box, AbbrBx), Unit(Pack, Kit)>>),
    productTypes |-> NotSupplied],
   [categories |-> Array(<<Category(Blank)>>),
    units |-> Array(<<Unit(Box, AbbrBx), Unit(Pack, AbbrBX)>>),
    productTypes |-> NotSupplied],
   [categories |-> Array(<<Category(Toys)>>), units |-> NotSupplied,
    productTypes |-> Array(<<ProductType(Blank)>>)],
   [categories |-> Array(<<Category(Box), Category(Kit)>>),
    units |-> NotSupplied, productTypes |-> NotSupplied]}

UpdatePasswordBodies ==
  [currentPassword : {Absent, PwOne, PwTwo},
   newPassword : {Absent, PwShort, PwSix, PwOne, PwTwo}]

(***************************************************************************)
(* Response messages (the literals of the handlers).                       *)
(***************************************************************************)
\* The messages of the handlers of authController.js.
AuthMsg ==
  [requiredFields |->
     "Please provide all required fields: firstName, lastName, email, password, businessName",
   userExists |-> "User with this email already exists",
   registered |-> "Registration successful",
   validationError |-> "Validation error",
   duplicateEmail |-> "A user with this email already exists",
   provideEmailPassword |-> "Please provide email and password",
   invalidCredentials |-> "Invalid credentials",
   deactivated |->
     "Your account has been deactivated. Please contact support.",
   noBusiness |->
     "No business associated with this account. Please contact support.",
   businessInactive |->
     "Your business account is not active. Please contact support.",
   loginOk |-> "Login successful",
   providePasswords |-> "Please provide current password and new password",
   newPasswordShort |-> "New password must be at least 6 characters long",
   userNotFound |-> "User not found",
   currentIncorrect |-> "Current password is incorrect",
   passwordUpdated |-> "Password updated successfully",
   loggedOut |-> "Logged out successfully"]

\* The messages of protect and authorize.
GuardMsg ==
  [noToken |->
     "Not authorized to access this route. No token provided.",
   invalidToken |-> "Not authorized. Invalid token.",
   userGone |-> "User no longer exists",
   accountDeactivated |-> "Your account has been deactivated",
   roleNotAuthorized |-> "User role is not authorized to access this route"]

\* The messages of updatePreferences and updateProfile.
BusinessMsg ==
  [noPreferenceField |->
     "At least one preference field (categories, units, or productTypes) must be provided",
   categoriesArray |-> "Categories must be an array",
   unitsArray |-> "Units must be an array",
   productTypesArray |-> "Product types must be an array",
   duplicateCategories |-> "Duplicate category names found",
   duplicateUnits |-> "Duplicate unit abbreviations found",
   duplicateProductTypes |-> "Duplicate product type names found",
   categoryName |-> "Each category must have a name",
   unitName |-> "Each unit must have a name",
   unitAbbreviation |-> "Each unit must have an abbreviation",
   productTypeName |-> "Each product type must have a name",
   preferencesUpdated |-> "Preferences updated successfully",
   preferencesRetrieved |-> "Preferences retrieved successfully",
   profileUpdated |-> "Business profile updated successfully",
   businessNotFound |-> "Business not found"]

\* The messages of the rate limiters.
RateMsg ==
  [api |-> "Too many requests from this IP, please try again later.",
   auth |-> "Too many login attempts, please try again after 15 minutes.",
   register |->
     "Too many accounts created from this IP, please try again later."]

MsgValidationFailed == "Validation failed"
MsgSchemaPasswordShort == "Password must be at least 8 characters"
MsgInternal == "Internal Server Error"

(***************************************************************************)
(* Credential hasher (bcryptjs).  A password field value records how many  *)
(* times bcrypt.hash was applied to the plaintext and the last salt.       *)
(***************************************************************************)
Plain(text) == [depth |-> 0, salt |-> 0, text |-> text]

BcryptHash(p, salt) == [depth |-> p.depth + 1, salt |-> salt, text |-> p.text]

\* bcrypt.compare: true only for a value that is the hash of the candidate.
BcryptCompare(candidate, stored) == stored.depth = 1 /\ stored.text = candidate

\* Length of the stored string: a bcrypt hash has 60 characters.
PasswordFieldLen(p) == IF p.depth = 0 THEN Len(p.text) ELSE 60

(***************************************************************************)
(* Token issuer / verifier (jsonwebtoken).  A token that verifies carries  *)
(* the subject id it was signed for; anything else fails jwt.verify.       *)
(***************************************************************************)
NoToken == [kind |-> "none", id |-> NoId]
BadToken == [kind |-> "invalid", id |-> NoId]

generateToken(id) == [kind |-> "jwt", id |-> id]

\* A token that was issued to the first account and is past its expiry.
ExpiredToken == [kind |-> "expired", id |-> <<"User", 1>>]

Tokens == {NoToken, BadToken, ExpiredToken} \cup {generateToken(u) : u \in UserIds}

\* The requests to a guarded route: every body with a well-formed token, one
\* body with the others (the guard answers before the body is read).
Calls(bodies) ==
  ({t \in Tokens : t.kind = "jwt"} \X bodies)
    \cup ({t \in Tokens : t.kind # "jwt"} \X {CHOOSE b \in bodies : TRUE})

(***************************************************************************)
(* Business model (models/Business.js).                                    *)
(***************************************************************************)
ColorDefault == <<"#", "6", "3", "6", "6", "f", "1">>
TypeQuantity == <<"q", "u", "a", "n", "t", "i", "t", "y">>
TypeWeight   == <<"w", "e", "i", "g", "h", "t">>
TypeVolume   == <<"v", "o", "l", "u", "m", "e">>

\* The object literal the pre-save hook assigns, after the sub-document
\* defaults of the schema (isActive: true) are applied to its elements.
DefaultPreferences ==
  [categories |-> <<
     [name |-> <<"E", "l", "e", "c", "t", "r", "o", "n", "i", "c", "s">>, color |-> <<"#", "3", "b", "8", "2", "f", "6">>, isActive |-> TRUE],
     [name |-> <<"C", "l", "o", "t", "h", "i", "n", "g">>, color |-> <<"#", "e", "c", "4", "8", "9", "9">>, isActive |-> TRUE],
     [name |-> <<"F", "o", "o", "d", " ", "&", " ", "B", "e", "v", "e", "r", "a", "g", "e", "s">>, color |-> <<"#", "f", "5", "9", "e", "0", "b">>, isActive |-> TRUE] >>,
   units |-> <<
     [name |-> <<"P", "i", "e", "c", "e">>, abbreviation |-> <<"P", "C", "S">>, type |-> TypeQuantity, isActive |-> TRUE],
     [name |-> <<"K", "i", "l", "o", "g", "r", "a", "m">>, abbreviation |-> <<"K", "G">>, type |-> TypeWeight, isActive |-> TRUE],
     [name |-> <<"L", "i", "t", "e", "r">>, abbreviation |-> <<"L">>, type |-> TypeVolume, isActive |-> TRUE],
     [name |-> <<"D", "o", "z", "e", "n">>, abbreviation |-> <<"D", "Z">>, type |-> TypeQuantity, isActive |-> TRUE] >>,
   productTypes |-> <<
     [name |-> <<"P", "h", "y", "s", "i", "c", "a", "l", " ", "P", "r", "o", "d", "u", "c", "t">>, requiresSerialNumber |-> FALSE,
      requiresExpiryDate |-> FALSE, trackInventory |-> TRUE, isActive |-> TRUE],
     [name |-> <<"P", "e", "r", "i", "s", "h", "a", "b", "l", "e">>, requiresSerialNumber |-> FALSE,
      requiresExpiryDate |-> TRUE, trackInventory |-> TRUE, isActive |-> TRUE],
     [name |-> <<"S", "e", "r", "v", "i", "c", "e">>, requiresSerialNumber |-> FALSE,
      requiresExpiryDate |-> FALSE, trackInventory |-> FALSE, isActive |-> TRUE] >>]

\* JavaScript truthiness of an array: every array, the empty one included,
\* is truthy.  Mongoose gives every array path of a schema the implicit
\* default [], on construction and on loading, so that
\* `preferences.categories` of a document is always an array.
ArrayTruthy(a) == Len(a) >= 0

EmptyPreferences == [categories |-> <<>>, units |-> <<>>, productTypes |-> <<>>]

\* Preference replacements whose body names a business.
TenantPreferencesBodies ==
  {[categories |-> Array(<<Category(Toys)>>), units |-> NotSupplied,
    productTypes |-> NotSupplied, businessId |-> <<"Business", k>>] :
     k \in 1..MaxUsers}

\* Requests whose elements carry optional fields: padded names and
\* abbreviations, a color, a unit type, and flags set to true and to false.
ColorRed == <<"#", "f", "0", "0">>
ColorRedPad == <<" ", "#", "f", "0", "0", " ">>
AbbrPad == <<" ", "b", "x", " ">>

ElementBodies ==
  UpdatePreferencesBodies \cup
  {[categories |-> Array(<<[Category(ToysPad) EXCEPT !.isActive = "false"],
                           [Category(Box) EXCEPT !.color = ColorRedPad,
                                                 !.isActive = "true"]>>),
    units |-> NotSupplied, productTypes |-> NotSupplied],
   [categories |-> NotSupplied,
    units |-> Array(<<Unit(Box, AbbrPad),
                      [Unit(ToysPad, Kit) EXCEPT !.type = TypeWeight,
                                                 !.isActive = "false"]>>),
    productTypes |-> NotSupplied],
   [categories |-> NotSupplied, units |-> NotSupplied,
    productTypes |-> Array(<<ProductType(ToysPad),
                             [ProductType(Kit) EXCEPT
                                !.requiresSerialNumber = "true",
                                !.requiresExpiryDate = "true",
                                !.trackInventory = "false",
                                !.isActive = "false"]>>)]}

\* Email pattern of the schemas, on the alphabet in use (isEmail of the
\* request validation accepts the same strings of this alphabet).
IsWordCh(c) == IsLowerCh(c) \/ IsUpperCh(c) \/ IsDigitCh(c)

MatchesEmail(s) ==
  LET n == Len(s) IN
  \E i \in 2..n :
    /\ s[i] = "@"
    /\ \E j \in {n - 3, n - 2} :
         /\ i + 1 < j
         /\ s[j] = "."
         /\ \A k \in (1..n) \ {i, j} : IsWordCh(s[k])

\* new Business({ name, industry, email, phone, owner }): casting with the
\* schema setters (trim, lowercase) and the schema defaults.
\* businessSchema.currency.
CurrencyDefault == <<"N", "G", "N">>
CurrencyEnum == {CurrencyDefault, Dollar}

NewBusiness(id, name, industry, email, owner) ==
  [id |-> id, name |-> Trim(name), industry |-> industry,
   email |-> ToLower(Trim(email)), owner |-> owner, isActive |-> TRUE,
   currency |-> CurrencyDefault, registrationNumber |-> NotSent,
   subscriptionStatus |-> "trial", subscriptionPlan |-> "free",
   preferences |-> EmptyPreferences, version |-> 0, isNew |-> TRUE]

\* businessSchema.pre('save').  `!this.preferences` is false for every
\* document (a nested path reads as an object), which leaves the test of
\* `!this.preferences.categories`.
BusinessPreSave(doc) ==
  IF doc.isNew /\ ~ArrayTruthy(doc.preferences.categories)
  THEN [doc EXCEPT !.preferences = DefaultPreferences]
  ELSE doc

\* Validation of a Business document before save: the failing paths.
BusinessInvalidPaths(doc) ==
  {f \in {"name", "industry", "email", "currency", "owner"} :
     \/ f = "name" /\ (doc.name = Absent \/ Len(doc.name) > 100)
     \/ f = "industry" /\ doc.industry \notin IndustryEnum
     \/ f = "currency" /\ doc.currency \notin CurrencyEnum
     \/ f = "email" /\ doc.email # Absent /\ ~MatchesEmail(doc.email)
     \/ f = "owner" /\ doc.owner = NoId}

\* The stored form of a Business document.
BusinessStored(doc) ==
  [name |-> doc.name, industry |-> doc.industry, email |-> doc.email,
   owner |-> doc.owner, isActive |-> doc.isActive,
   currency |-> doc.currency, registrationNumber |-> doc.registrationNumber,
   subscriptionStatus |-> doc.subscriptionStatus,
   subscriptionPlan |-> doc.subscriptionPlan,
   preferences |-> doc.preferences, version |-> doc.version]

(***************************************************************************)
(* User model (models/User.js).                                            *)
(***************************************************************************)
\* new User({ firstName, lastName, email, password, phone, role: 'owner' }).
NewUser(id, email, password) ==
  [id |-> id, email |-> ToLower(Trim(email)), password |-> Plain(password),
   business |-> NoId, role |-> "owner", isActive |-> TRUE,
   lastLogin |-> NoTime, isNew |-> TRUE,
   modified |-> {"email", "password", "role"}]

\* A pre-save hook without the isModified test: it hashes on every save,
\* and the assignment marks the path as modified.
UserPreSaveAlways(doc, salt) ==
  [doc EXCEPT !.password = BcryptHash(doc.password, salt),
              !.modified = @ \cup {"password"}]

\* A pre-save hook that tests `isModified()` of the document instead of
\* the password: it hashes when any path was modified, and the assignment
\* marks the password as modified.
UserPreSaveAnyPath(doc, salt) ==
  IF doc.modified = {}
  THEN doc
  ELSE [doc EXCEPT !.password = BcryptHash(doc.password, salt),
                   !.modified = @ \cup {"password"}]

\* userSchema.pre('save'): hash the password only when it was modified.
UserPreSave(doc, salt) ==
  IF "password" \notin doc.modified
  THEN doc
  ELSE [doc EXCEPT !.password = BcryptHash(doc.password, salt)]

\* Validation of a User document before save: the required paths without a
\* value and the modified paths that fail a validator.
UserInvalidPaths(doc) ==
  {f \in {"business", "password"} :
     \/ f = "business" /\ doc.business = NoId
     \/ f = "password" /\ "password" \in doc.modified
          /\ PasswordFieldLen(doc.password) < SchemaPasswordMin}

\* The stored form of a User document.
UserStored(doc) ==
  [email |-> doc.email, password |-> doc.password, business |-> doc.business,
   role |-> doc.role, isActive |-> doc.isActive, lastLogin |-> doc.lastLogin]

\* The document after a successful save: nothing is new or modified.
Saved(doc) == [doc EXCEPT !.isNew = FALSE, !.modified = {}]

\* A document loaded from the collection.
LoadUser(store, id) ==
  [id |-> id, email |-> store[id].email, password |-> store[id].password,
   business |-> store[id].business, role |-> store[id].role,
   isActive |-> store[id].isActive, lastLogin |-> store[id].lastLogin,
   isNew |-> FALSE, modified |-> {}]

\* updateOne({ _id }, { $set: <modified paths> }).
SetModified(stored, doc) ==
  [f \in DOMAIN stored |-> IF f \in doc.modified THEN UserStored(doc)[f] ELSE stored[f]]

\* User.findOne({ email }): the filter is cast with the schema setters.
FindByEmail(store, email) ==
  {u \in DOMAIN store : store[u].email = ToLower(Trim(email))}

(***************************************************************************)
(* Request validation (middleware/validation.js).                          *)
(***************************************************************************)
\* matches(/^(?=.*[a-z])(?=.*[A-Z])(?=.*\d)/)
MatchesPasswordPattern(s) ==
  /\ \E i \in 1..Len(s) : IsLowerCh(s[i])
  /\ \E i \in 1..Len(s) : IsUpperCh(s[i])
  /\ \E i \in 1..Len(s) : IsDigitCh(s[i])

\* registerValidation: the fields with at least one failing rule.
RegisterValidationErrors(b) ==
  {f \in {"firstName", "lastName", "email", "password", "businessName", "industry"} :
     \/ f = "firstName"
          /\ (Trim(b.firstName) = <<>> \/ Len(Trim(b.firstName)) < NameMin
              \/ Len(Trim(b.firstName)) > 50)
     \/ f = "lastName"
          /\ (Trim(b.lastName) = <<>> \/ Len(Trim(b.lastName)) < NameMin
              \/ Len(Trim(b.lastName)) > 50)
     \/ f = "email" /\ (Trim(b.email) = <<>> \/ ~MatchesEmail(Trim(b.email)))
     \/ f = "password"
          /\ (b.password = <<>> \/ Len(b.password) < RegisterPasswordMin
              \/ ~MatchesPasswordPattern(b.password))
     \/ f = "businessName"
          /\ (Trim(b.businessName) = <<>> \/ Len(Trim(b.businessName)) < NameMin
              \/ Len(Trim(b.businessName)) > 100)
     \/ f = "industry" /\ b.industry # Absent /\ b.industry \notin IndustryEnum}

\* The body after the sanitizers of registerValidation (trim, normalizeEmail).
RegisterSanitized(b) ==
  [b EXCEPT !.firstName = Trim(b.firstName), !.lastName = Trim(b.lastName),
            !.email = ToLower(Trim(b.email)),
            !.businessName = Trim(b.businessName)]

\* loginValidation.
LoginValidationErrors(b) ==
  {f \in {"email", "password"} :
     \/ f = "email" /\ (Trim(b.email) = <<>> \/ ~MatchesEmail(Trim(b.email)))
     \/ f = "password" /\ b.password = <<>>}

LoginSanitized(b) == [b EXCEPT !.email = ToLower(Trim(b.email))]

(***************************************************************************)
(* State.                                                                  *)
(***************************************************************************)
VARIABLES
  users,        \* the User collection as committed: [ids -> stored document]
  businesses,   \* the Business collection as committed
  reg,          \* the register handler of each request in flight
  now,          \* the wall clock read by new Date()
  resp,         \* the response sent last
  limiter,      \* the hit counters of the three rate limiters for a client IP
  prefReq       \* the updatePreferences handler of each request in flight

vars == <<users, businesses, reg, now, resp, limiter, prefReq>>

NoDoc == [id |-> NoId]
NoStore == [i \in {} |-> NoDoc]
NoBody == [email |-> Absent]

IdleReg ==
  [pc |-> "idle", body |-> NoBody, tempUser |-> NoDoc, business |-> NoDoc,
   session |-> "none", txUsers |-> NoStore, txBusinesses |-> NoStore,
   error |-> "none"]

\* The counters of a client that has sent nothing in the current windows.
NoHits == [api |-> 0, auth |-> 0, register |-> 0]

\* A request in flight holds the id and the revision of the document it
\* loaded, the paths it assigned and the values of those paths.
IdlePref ==
  [pc |-> "idle", business |-> NoId, version |-> 0, paths |-> {},
   preferences |-> EmptyPreferences]

Response(op, status, message, token) ==
  [op |-> op, status |-> status, message |-> message, token |-> token]

NoResponse == Response("none", 0, "", NoToken)

Init ==
  /\ users = NoStore
  /\ businesses = NoStore
  /\ reg = [p \in Procs |-> IdleReg]
  /\ now = 0
  /\ resp = NoResponse
  /\ limiter = NoHits
  /\ prefReq = [p \in Procs |-> IdlePref]

(***************************************************************************)
(* Shared error handler (middleware/errorHandler.js), for the errors a     *)
(* save can throw.                                                         *)
(***************************************************************************)
errorHandler(op, error, message) ==
  IF error = "ValidationError" THEN Response(op, 400, message, NoToken)
  ELSE IF error = "DuplicateKey" THEN Response(op, 400, message, NoToken)
  ELSE Response(op, 500, message, NoToken)

(***************************************************************************)
(* POST /api/auth/register: registerValidation, validate, register.        *)
(* The handler runs from one database operation to the next in one step;   *)
(* the writes of its session are staged in txUsers / txBusinesses and      *)
(* reach the collections when the transaction commits.                     *)
(***************************************************************************)
InFlight == {p \in Procs : reg[p].pc # "idle"}

\* ObjectIds are generated by the driver; the model reuses the first id that
\* no committed or staged document holds.
SmallestOf(ids) == CHOOSE i \in ids : \A j \in ids : i[2] <= j[2]

FreeUserIds ==
  UserIds \ (DOMAIN users \cup {reg[p].tempUser.id : p \in Procs})

FreeBusinessIds ==
  BusinessIds \ (DOMAIN businesses \cup {reg[p].business.id : p \in Procs})

\* The required-fields test of the handler.
RequiredFieldsPresent(b) ==
  /\ Truthy(b.firstName) /\ Truthy(b.lastName) /\ Truthy(b.email)
  /\ Truthy(b.password) /\ Truthy(b.businessName)

\* The start of the handler without the lookup of the email.
RegisterBeginOutcomeNoLookup(raw) ==
  LET b == RegisterSanitized(raw) IN
  IF RegisterValidationErrors(raw) # {}
  THEN Response("register", 400, MsgValidationFailed, NoToken)
  ELSE IF ~RequiredFieldsPresent(b)
  THEN Response("register", 400, AuthMsg.requiredFields, NoToken)
  ELSE Response("continue", 0, "", NoToken)

\* validate, then the handler up to and including User.findOne({ email }):
\* the response sent there, or "continue" when the handler goes on.
RegisterBeginOutcome(raw) ==
  LET b == RegisterSanitized(raw) IN
  IF RegisterValidationErrors(raw) # {}
  THEN Response("register", 400, MsgValidationFailed, NoToken)
  ELSE IF ~RequiredFieldsPresent(b)
  THEN Response("register", 400, AuthMsg.requiredFields, NoToken)
  ELSE IF FindByEmail(users, b.email) # {}
  THEN Response("register", 400, AuthMsg.userExists, NoToken)
  ELSE Response("continue", 0, "", NoToken)

\* The request `raw` past the rate limiters: validate and the start of the
\* handler.
RegisterRequest(p, raw) ==
  /\ reg[p].pc = "idle"
  /\ LET out == RegisterBeginOutcome(raw) IN
     IF out.op = "continue"
     THEN /\ Cardinality(DOMAIN users) + Cardinality(InFlight) < MaxUsers
          /\ reg' = [reg EXCEPT ![p] =
               [IdleReg EXCEPT !.pc = "saveTempUser", !.session = "active",
                               !.body = RegisterSanitized(raw)]]
          /\ UNCHANGED resp
     ELSE /\ resp' = out
          /\ UNCHANGED reg
  /\ UNCHANGED <<users, businesses, now, prefReq>>

\* A register request of a client whose windows are not full.
RegisterBegin(p) ==
  \E raw \in RegisterBodies : RegisterRequest(p, raw) /\ UNCHANGED limiter

\* The same with the complete request of one email only.
RegisterSeed(p) ==
  \E raw \in BaseRegisterBodies : RegisterRequest(p, raw) /\ UNCHANGED limiter

\* A collection without the unique index on email.
InsertUserErrorNoIndex(p, email) == "none"

\* The unique index on email, seen by an insert inside a transaction.
InsertUserError(p, email) ==
  IF FindByEmail(users, email) # {} THEN "DuplicateKey"
  ELSE IF \E q \in Procs \ {p} :
            reg[q].session = "active" /\ FindByEmail(reg[q].txUsers, email) # {}
  THEN "WriteConflict"
  ELSE "none"

Fail(p, error) ==
  reg' = [reg EXCEPT ![p].pc = "catch", ![p].error = error]

\* The first save without the session: the account reaches the collection
\* at once.
SaveTempUserOutside(p) ==
  /\ reg[p].pc = "saveTempUser"
  /\ \E salt \in Salts :
       LET b == reg[p].body
           new == NewUser(SmallestOf(FreeUserIds), b.email, b.password)
           doc == UserPreSave(new, salt)
       IN IF FindByEmail(users, doc.email) # {}
          THEN Fail(p, "DuplicateKey") /\ UNCHANGED users
          ELSE /\ reg' = [reg EXCEPT ![p].pc = "saveBusiness",
                                     ![p].tempUser = Saved(doc),
                                     ![p].txUsers = doc.id :> UserStored(doc)]
               /\ users' = users @@ (doc.id :> UserStored(doc))
  /\ UNCHANGED <<businesses, now, resp, limiter, prefReq>>

\* const tempUser = new User({...}); await tempUser.save({ session,
\* validateBeforeSave: false }).
SaveTempUser(p) ==
  /\ reg[p].pc = "saveTempUser"
  /\ \E salt \in Salts : \E storeFails \in BOOLEAN :
       LET b == reg[p].body
           new == NewUser(SmallestOf(FreeUserIds), b.email, b.password)
           doc == UserPreSave(new, salt)
           error == InsertUserError(p, doc.email)
       IN IF storeFails THEN Fail(p, "Other")
          ELSE IF error # "none" THEN Fail(p, error)
          ELSE reg' = [reg EXCEPT ![p].pc = "saveBusiness",
                                  ![p].tempUser = Saved(doc),
                                  ![p].txUsers = doc.id :> UserStored(doc)]
  /\ UNCHANGED <<users, businesses, now, resp, limiter, prefReq>>

\* const business = new Business({...}); await business.save({ session }).
SaveBusiness(p) ==
  /\ reg[p].pc = "saveBusiness"
  /\ \E storeFails \in BOOLEAN :
       LET b == reg[p].body
           new == NewBusiness(SmallestOf(FreeBusinessIds), b.businessName,
                              IF Truthy(b.industry) THEN b.industry ELSE Other,
                              IF Truthy(b.businessEmail) THEN b.businessEmail
                                                         ELSE b.email,
                              reg[p].tempUser.id)
           doc == BusinessPreSave(new)
       IN IF storeFails THEN Fail(p, "Other")
          ELSE IF BusinessInvalidPaths(new) # {} THEN Fail(p, "ValidationError")
          ELSE reg' = [reg EXCEPT ![p].pc = "saveUserAgain",
                                  ![p].business = [doc EXCEPT !.isNew = FALSE],
                                  ![p].txBusinesses = doc.id :> BusinessStored(doc)]
  /\ UNCHANGED <<users, businesses, now, resp, limiter, prefReq>>

\* tempUser.business = business._id; tempUser.lastLogin = new Date();
\* await tempUser.save({ session, validateBeforeSave: true }).
SaveUserAgain(p) ==
  /\ reg[p].pc = "saveUserAgain"
  /\ \E salt \in Salts : \E storeFails \in BOOLEAN :
       LET set == [reg[p].tempUser EXCEPT !.business = reg[p].business.id,
                                          !.lastLogin = now,
                                          !.modified = {"business", "lastLogin"}]
           doc == UserPreSave(set, salt)
       IN IF storeFails THEN Fail(p, "Other")
          ELSE IF UserInvalidPaths(set) # {} THEN Fail(p, "ValidationError")
          ELSE reg' = [reg EXCEPT ![p].pc = "commit",
                                  ![p].tempUser = Saved(doc),
                                  ![p].txUsers =
                                     doc.id :> SetModified(reg[p].txUsers[doc.id], doc)]
  /\ UNCHANGED <<users, businesses, now, resp, limiter, prefReq>>

\* A commit that is not atomic across the two collections: the accounts of
\* the session reach the store, its businesses do not.
CommitAccountsOnly(p) ==
  /\ reg[p].pc = "commit"
  /\ users' = users @@ reg[p].txUsers
  /\ resp' = Response("register", 201, AuthMsg.registered,
                      generateToken(reg[p].tempUser.id))
  /\ reg' = [reg EXCEPT ![p] = IdleReg]
  /\ UNCHANGED <<businesses, now, limiter, prefReq>>

\* await session.commitTransaction(); session.endSession(); the token and
\* the 201 response.  A commit that fails leaves the session in its
\* committed state and throws into the catch block.
Commit(p) ==
  /\ reg[p].pc = "commit"
  /\ \E storeFails \in BOOLEAN :
       IF storeFails
       THEN /\ reg' = [reg EXCEPT ![p].pc = "catch", ![p].error = "Other",
                                  ![p].session = "committed"]
            /\ UNCHANGED <<users, businesses, resp>>
       ELSE /\ users' = users @@ reg[p].txUsers
            /\ businesses' = businesses @@ reg[p].txBusinesses
            /\ resp' = Response("register", 201, AuthMsg.registered,
                                generateToken(reg[p].tempUser.id))
            /\ reg' = [reg EXCEPT ![p] = IdleReg]
  /\ UNCHANGED <<now, limiter, prefReq>>

\* The commit succeeds and the session is ended; then generateToken (or
\* the building of the response) throws into the catch block.
CommitTokenFails(p) ==
  /\ reg[p].pc = "commit"
  /\ users' = users @@ reg[p].txUsers
  /\ businesses' = businesses @@ reg[p].txBusinesses
  /\ reg' = [reg EXCEPT ![p].pc = "catch", ![p].error = "Other",
                        ![p].session = "ended"]
  /\ UNCHANGED <<now, resp, limiter, prefReq>>

\* catch (error): await session.abortTransaction(); session.endSession();
\* then the response for the error.  abortTransaction throws on a session
\* whose commitTransaction was called: the handler then ends without a
\* response.
RegisterCatchResponse(session, error) ==
  IF session \in {"committed", "ended"}
  THEN Response("register", 0, "unhandled rejection", NoToken)
  ELSE IF error = "ValidationError"
  THEN Response("register", 400, AuthMsg.validationError, NoToken)
  ELSE IF error = "DuplicateKey"
  THEN Response("register", 400, AuthMsg.duplicateEmail, NoToken)
  ELSE errorHandler("register", error, MsgInternal)

RegisterCatch(p) ==
  /\ reg[p].pc = "catch"
  /\ resp' = RegisterCatchResponse(reg[p].session, reg[p].error)
  /\ reg' = [reg EXCEPT ![p] = IdleReg]
  /\ UNCHANGED <<users, businesses, now, limiter, prefReq>>

\* Time passes.
Tick ==
  /\ now < MaxClock
  /\ now' = now + 1
  /\ UNCHANGED <<users, businesses, reg, resp, limiter, prefReq>>

(***************************************************************************)
(* POST /api/auth/login: loginValidation, validate, login.                 *)
(***************************************************************************)
\* .populate('business'): the referenced document, or null.
Populated(bs, user) ==
  IF user.business \in DOMAIN bs THEN bs[user.business] ELSE NoDoc

\* A handler that tests the business of the account before the password.
LoginHandlerBusinessFirst(us, bs, raw) ==
  LET b == LoginSanitized(raw)
      found == FindByEmail(us, b.email)
      id == CHOOSE u \in found : TRUE
      user == us[id]
      deny(status, message) ==
        [resp |-> Response("login", status, message, NoToken), user |-> NoId]
  IN IF LoginValidationErrors(raw) # {} THEN deny(400, MsgValidationFailed)
     ELSE IF ~Truthy(b.email) \/ ~Truthy(b.password)
     THEN deny(400, AuthMsg.provideEmailPassword)
     ELSE IF found = {} THEN deny(401, AuthMsg.invalidCredentials)
     ELSE IF ~user.isActive THEN deny(401, AuthMsg.deactivated)
     ELSE IF Populated(bs, user) = NoDoc THEN deny(403, AuthMsg.noBusiness)
     ELSE IF ~Populated(bs, user).isActive THEN deny(403, AuthMsg.businessInactive)
     ELSE IF ~BcryptCompare(b.password, user.password)
     THEN deny(401, AuthMsg.invalidCredentials)
     ELSE [resp |-> Response("login", 200, AuthMsg.loginOk, generateToken(id)),
           user |-> id]

\* The handler on the collections us (accounts) and bs (businesses): its
\* response to a body, and the account it logs in (NoId when it logs
\* nobody in).
LoginHandler(us, bs, raw) ==
  LET b == LoginSanitized(raw)
      found == FindByEmail(us, b.email)
      id == CHOOSE u \in found : TRUE
      user == us[id]
      deny(status, message) ==
        [resp |-> Response("login", status, message, NoToken), user |-> NoId]
  IN IF LoginValidationErrors(raw) # {} THEN deny(400, MsgValidationFailed)
     ELSE IF ~Truthy(b.email) \/ ~Truthy(b.password)
     THEN deny(400, AuthMsg.provideEmailPassword)
     ELSE IF found = {} THEN deny(401, AuthMsg.invalidCredentials)
     ELSE IF ~user.isActive THEN deny(401, AuthMsg.deactivated)
     ELSE IF ~BcryptCompare(b.password, user.password)
     THEN deny(401, AuthMsg.invalidCredentials)
     ELSE IF Populated(bs, user) = NoDoc THEN deny(403, AuthMsg.noBusiness)
     ELSE IF ~Populated(bs, user).isActive THEN deny(403, AuthMsg.businessInactive)
     ELSE [resp |-> Response("login", 200, AuthMsg.loginOk, generateToken(id)),
           user |-> id]

\* A login that tells an unknown email from a wrong password.
LoginOutcomeLeaky(raw) ==
  LET out == LoginHandler(users, businesses, raw) IN
  IF LoginValidationErrors(raw) = {} /\ FindByEmail(users, raw.email) = {}
  THEN [out EXCEPT !.resp = Response("login", 404, AuthMsg.userNotFound, NoToken)]
  ELSE out

\* The response of the route to a body in the current state.
LoginOutcome(raw) == LoginHandler(users, businesses, raw)

\* user.lastLogin = new Date(); await user.save().
LoginSave(id, salt) ==
  LET set == [LoadUser(users, id) EXCEPT !.lastLogin = now,
                                         !.modified = {"lastLogin"}]
      doc == UserPreSave(set, salt)
  IN [users EXCEPT ![id] = SetModified(users[id], doc)]

\* The request `raw` past the rate limiters: validate and the handler.
LoginRequest(raw, salt) ==
  /\ LET out == LoginOutcome(raw) IN
     /\ resp' = out.resp
     /\ users' = IF out.user = NoId THEN users ELSE LoginSave(out.user, salt)
  /\ UNCHANGED <<businesses, reg, now, prefReq>>

\* A login request of a client whose windows are not full.
Login ==
  \E raw \in LoginBodies : \E salt \in Salts :
    LoginRequest(raw, salt) /\ UNCHANGED limiter

(***************************************************************************)
(* Access guard (protect, authorize).                                      *)
(***************************************************************************)
\* A guard without the test of `user.isActive`.
ProtectStale(op, token) ==
  LET deny(message) == [resp |-> Response(op, 401, message, NoToken), user |-> NoId]
  IN IF token.kind = "none" THEN deny(GuardMsg.noToken)
     ELSE IF token.kind # "jwt" THEN deny(GuardMsg.invalidToken)
     ELSE IF token.id \notin DOMAIN users THEN deny(GuardMsg.userGone)
     ELSE [resp |-> Response("next", 0, "", NoToken), user |-> token.id]

\* protect: the 401 response, or "next" with the resolved account.
Protect(op, token) ==
  LET deny(message) == [resp |-> Response(op, 401, message, NoToken), user |-> NoId]
  IN IF token.kind = "none" THEN deny(GuardMsg.noToken)
     ELSE IF token.kind # "jwt" THEN deny(GuardMsg.invalidToken)
     ELSE IF token.id \notin DOMAIN users THEN deny(GuardMsg.userGone)
     ELSE IF ~users[token.id].isActive THEN deny(GuardMsg.accountDeactivated)
     ELSE [resp |-> Response("next", 0, "", NoToken), user |-> token.id]

\* An Authorization header that is absent, does not start with 'Bearer',
\* or carries nothing after it leaves `token` undefined; the other headers
\* carry a token.
MalformedHeader == [kind |-> "malformed", id |-> NoId]

Headers == Tokens \cup {MalformedHeader}

\* An optional guard that answers as protect does when a token is sent
\* and does not resolve.
OptionalAuthStrict(header, storeFails) ==
  IF header.kind \in {"none", "malformed"}
  THEN [resp |-> Response("next", 0, "", NoToken), user |-> NoId]
  ELSE Protect("optionalAuth", header)

\* optionalAuth: "next" with the account attached as req.user, NoId when
\* none is attached.  An error of jwt.verify or of User.findById is caught
\* and dropped.
OptionalAuth(header, storeFails) ==
  LET next(user) == [resp |-> Response("next", 0, "", NoToken), user |-> user]
  IN IF header.kind \in {"none", "malformed"} THEN next(NoId)
     ELSE IF header.kind # "jwt" THEN next(NoId)
     ELSE IF storeFails THEN next(NoId)
     ELSE IF header.id \in DOMAIN users /\ users[header.id].isActive
     THEN next(header.id)
     ELSE next(NoId)

\* A request through optionalAuth: the response is the one of the guard if
\* it sends one; otherwise the next handler runs, and the token field
\* stands for the account it finds in req.user.
OptionalRequest ==
  /\ \E header \in Headers : \E storeFails \in BOOLEAN :
       LET guard == OptionalAuth(header, storeFails) IN
       resp' = IF guard.resp.op # "next" THEN guard.resp
               ELSE Response("optionalAuth", 0, "",
                             IF guard.user = NoId THEN NoToken
                             ELSE generateToken(guard.user))
  /\ UNCHANGED <<users, businesses, reg, now, limiter, prefReq>>

(***************************************************************************)
(* PUT /api/auth/update-password: protect, updatePassword.                 *)
(***************************************************************************)
\* A rotation that answers 200 and saves the document with no path marked
\* as modified, so that the stored password stays.
UpdatePasswordOutcomeUnsaved(id, b, salt) ==
  LET user == LoadUser(users, id)
      deny(status, message) ==
        [resp |-> Response("updatePassword", status, message, NoToken),
         save |-> NoDoc]
  IN IF ~Truthy(b.currentPassword) \/ ~Truthy(b.newPassword)
     THEN deny(400, AuthMsg.providePasswords)
     ELSE IF Len(b.newPassword) < RotationPasswordMin
     THEN deny(400, AuthMsg.newPasswordShort)
     ELSE IF id \notin DOMAIN users THEN deny(404, AuthMsg.userNotFound)
     ELSE IF ~BcryptCompare(b.currentPassword, user.password)
     THEN deny(401, AuthMsg.currentIncorrect)
     ELSE [resp |-> Response("updatePassword", 200, AuthMsg.passwordUpdated,
                             generateToken(id)),
           save |-> user]

\* A rotation without the comparison of the current password.
UpdatePasswordOutcomeUnchecked(id, b, salt) ==
  LET user == LoadUser(users, id)
      set == [user EXCEPT !.password = Plain(b.newPassword),
                          !.modified = {"password"}]
      deny(status, message) ==
        [resp |-> Response("updatePassword", status, message, NoToken),
         save |-> NoDoc]
  IN IF ~Truthy(b.currentPassword) \/ ~Truthy(b.newPassword)
     THEN deny(400, AuthMsg.providePasswords)
     ELSE IF Len(b.newPassword) < RotationPasswordMin
     THEN deny(400, AuthMsg.newPasswordShort)
     ELSE IF id \notin DOMAIN users THEN deny(404, AuthMsg.userNotFound)
     ELSE IF UserInvalidPaths(set) # {}
     THEN [resp |-> errorHandler("updatePassword", "ValidationError",
                                 MsgSchemaPasswordShort),
           save |-> NoDoc]
     ELSE [resp |-> Response("updatePassword", 200, AuthMsg.passwordUpdated,
                             generateToken(id)),
           save |-> UserPreSave(set, salt)]

\* The response of the handler for the account the guard resolved, and the
\* document it saves (NoDoc when it saves nothing).
UpdatePasswordOutcome(id, b, salt) ==
  LET user == LoadUser(users, id)
      set == [user EXCEPT !.password = Plain(b.newPassword),
                          !.modified = {"password"}]
      deny(status, message) ==
        [resp |-> Response("updatePassword", status, message, NoToken),
         save |-> NoDoc]
  IN IF ~Truthy(b.currentPassword) \/ ~Truthy(b.newPassword)
     THEN deny(400, AuthMsg.providePasswords)
     ELSE IF Len(b.newPassword) < RotationPasswordMin
     THEN deny(400, AuthMsg.newPasswordShort)
     ELSE IF id \notin DOMAIN users THEN deny(404, AuthMsg.userNotFound)
     ELSE IF ~BcryptCompare(b.currentPassword, user.password)
     THEN deny(401, AuthMsg.currentIncorrect)
     ELSE IF UserInvalidPaths(set) # {}
     THEN [resp |-> errorHandler("updatePassword", "ValidationError",
                                 MsgSchemaPasswordShort),
           save |-> NoDoc]
     ELSE [resp |-> Response("updatePassword", 200, AuthMsg.passwordUpdated,
                             generateToken(id)),
           save |-> UserPreSave(set, salt)]

UpdatePassword ==
  /\ \E call \in Calls(UpdatePasswordBodies) : \E salt \in Salts :
       LET token == call[1]
           b == call[2]
           guard == Protect("updatePassword", token)
           out == UpdatePasswordOutcome(guard.user, b, salt)
       IN IF guard.user = NoId
          THEN resp' = guard.resp /\ UNCHANGED users
          ELSE /\ resp' = out.resp
               /\ users' = IF out.save = NoDoc THEN users
                           ELSE [users EXCEPT ![guard.user] =
                                   SetModified(users[guard.user], out.save)]
  /\ UNCHANGED <<businesses, reg, now, limiter, prefReq>>

(***************************************************************************)
(* Business preferences and profile (controllers/businessController.js).   *)
(***************************************************************************)
MsgBusinessInvalid == "Business validation failed"

TypeLength == <<"l", "e", "n", "g", "t", "h">>
UnitTypeEnum == {TypeWeight, TypeVolume, TypeLength, TypeQuantity, Other}

\* A role check that lets the admin role pass as well.
AuthorizeAdmins(op, id, roles) ==
  IF users[id].role \notin roles \cup {"admin"}
  THEN Response(op, 403, GuardMsg.roleNotAuthorized, NoToken)
  ELSE Response("next", 0, "", NoToken)

\* authorize(...roles): the 403 response, or "next".
Authorize(op, id, roles) ==
  IF users[id].role \notin roles
  THEN Response(op, 403, GuardMsg.roleNotAuthorized, NoToken)
  ELSE Response("next", 0, "", NoToken)

\* preferencesValidation: the fields with at least one failing rule.
PreferencesValidationErrors(b) ==
  LET items(f) == b[f].items
      some(f, bad(_)) ==
        b[f].kind = "array" /\ \E i \in 1..Len(items(f)) : bad(items(f)[i])
      badName(e) == e.name = <<>> \/ Len(e.name) > 100
      badUnitName(e) == e.name = <<>>
      badAbbreviation(e) == e.abbreviation = <<>> \/ Len(e.abbreviation) > 10
      badType(e) == e.type # Absent /\ e.type \notin UnitTypeEnum
  IN {f \in {"categories", "categories.*.name", "units", "units.*.name",
             "units.*.abbreviation", "units.*.type", "productTypes",
             "productTypes.*.name"} :
        \/ f \in {"categories", "units", "productTypes"}
             /\ b[f].kind \notin {"undefined", "array"}
        \/ f = "categories.*.name" /\ some("categories", badName)
        \/ f = "units.*.name" /\ some("units", badUnitName)
        \/ f = "units.*.abbreviation" /\ some("units", badAbbreviation)
        \/ f = "units.*.type" /\ some("units", badType)
        \/ f = "productTypes.*.name" /\ some("productTypes", badName)}

\* A duplicate check that finds nothing.
NeverDuplicates(keys) == FALSE

\* keys.filter((key, index) => keys.indexOf(key) !== index).length > 0
HasDuplicates(keys) ==
  \E i \in 1..Len(keys) : \E j \in 1..Len(keys) : i < j /\ keys[i] = keys[j]

\* keys.filter((key, index) => keys.indexOf(key) !== index), from index i on.
RECURSIVE DuplicatesFrom(_, _)
DuplicatesFrom(keys, i) ==
  IF i > Len(keys) THEN <<>>
  ELSE (IF \E j \in 1..(i - 1) : keys[j] = keys[i] THEN <<keys[i]>> ELSE <<>>)
         \o DuplicatesFrom(keys, i + 1)

\* The values that `${duplicates.join(', ')}` puts into the message.
Duplicates(keys) == DuplicatesFrom(keys, 1)

\* A category key that tells upper case from lower case.
CategoryKeyExact(c) == Trim(c.name)

CategoryKey(c) == Trim(ToLower(c.name))
UnitKey(u) == Trim(ToUpper(u.abbreviation))
ProductTypeKey(pt) == Trim(ToLower(pt.name))

\* `value || otherwise` on an optional boolean.
OptionalOr(value, otherwise) == value = "true" \/ otherwise

\* `value !== undefined ? value : otherwise` on an optional boolean.
Optional(value, otherwise) == IF value = "undefined" THEN otherwise ELSE value = "true"

\* The elements the handler assigns, cast by the schema.
StoredCategory(c) ==
  [name |-> Trim(c.name),
   color |-> IF Truthy(Trim(c.color)) THEN Trim(c.color) ELSE ColorDefault,
   isActive |-> Optional(c.isActive, TRUE)]

StoredUnit(u) ==
  [name |-> Trim(u.name), abbreviation |-> Trim(ToUpper(u.abbreviation)),
   type |-> IF Truthy(u.type) THEN u.type ELSE TypeQuantity,
   isActive |-> Optional(u.isActive, TRUE)]

StoredProductType(pt) ==
  [name |-> Trim(pt.name),
   requiresSerialNumber |-> Optional(pt.requiresSerialNumber, FALSE),
   requiresExpiryDate |-> Optional(pt.requiresExpiryDate, FALSE),
   trackInventory |-> Optional(pt.trackInventory, TRUE),
   isActive |-> Optional(pt.isActive, TRUE)]

\* Validation of the preferences of a Business document before save.
PreferencesInvalid(prefs) ==
  \/ \E i \in 1..Len(prefs.categories) : prefs.categories[i].name = <<>>
  \/ \E i \in 1..Len(prefs.units) :
       \/ prefs.units[i].name = <<>>
       \/ prefs.units[i].abbreviation = <<>>
       \/ prefs.units[i].type \notin UnitTypeEnum
  \/ \E i \in 1..Len(prefs.productTypes) : prefs.productTypes[i].name = <<>>

\* The handler for the account the guard resolved, from the loaded document
\* to the call of save: its response when it returns before the save, and
\* otherwise (`saves`) the preferences of the document and the paths it
\* assigned.
updatePreferences(id, b) ==
  LET bid == users[id].business
      old == businesses[bid].preferences
      supplied(f) == b[f].kind # "undefined"
      isArray(f) == b[f].kind = "array"
      keys(f, Key(_)) == [i \in 1..Len(b[f].items) |-> Key(b[f].items[i])]
      blankName(f) ==
        \E i \in 1..Len(b[f].items) : Trim(b[f].items[i].name) = <<>>
      blankAbbreviation ==
        \E i \in 1..Len(b.units.items) : Trim(b.units.items[i].abbreviation) = <<>>
      \* the first unit without a name or without an abbreviation decides
      firstBadUnit ==
        CHOOSE i \in 1..Len(b.units.items) :
          /\ Trim(b.units.items[i].name) = <<>>
               \/ Trim(b.units.items[i].abbreviation) = <<>>
          /\ \A j \in 1..(i - 1) :
               /\ Trim(b.units.items[j].name) # <<>>
               /\ Trim(b.units.items[j].abbreviation) # <<>>
      map(f, Stored(_)) == [i \in 1..Len(b[f].items) |-> Stored(b[f].items[i])]
      new == [categories |-> IF supplied("categories")
                             THEN map("categories", StoredCategory)
                             ELSE old.categories,
              units |-> IF supplied("units")
                        THEN map("units", StoredUnit)
                        ELSE old.units,
              productTypes |-> IF supplied("productTypes")
                               THEN map("productTypes", StoredProductType)
                               ELSE old.productTypes]
      \* the paths the assignments mark as modified: an assignment of a
      \* value that deep-equals the loaded one marks nothing, and only an
      \* empty array equals the loaded array (elements get fresh ids)
      modified == {f \in {"categories", "units", "productTypes"} :
                     supplied(f) /\ ~(new[f] = <<>> /\ old[f] = <<>>)}
      deny(status, message) ==
        [resp |-> Response("updatePreferences", status, message, NoToken),
         saves |-> FALSE, preferences |-> old, paths |-> {}, named |-> <<>>]
      duplicate(message, found) ==
        [deny(400, message) EXCEPT !.named = found]
  IN IF ~supplied("categories") /\ ~supplied("units") /\ ~supplied("productTypes")
     THEN deny(400, BusinessMsg.noPreferenceField)
     ELSE IF supplied("categories") /\ ~isArray("categories")
     THEN deny(400, BusinessMsg.categoriesArray)
     ELSE IF supplied("categories") /\ HasDuplicates(keys("categories", CategoryKey))
     THEN duplicate(BusinessMsg.duplicateCategories,
                    Duplicates(keys("categories", CategoryKey)))
     ELSE IF supplied("categories") /\ blankName("categories")
     THEN deny(400, BusinessMsg.categoryName)
     ELSE IF supplied("units") /\ ~isArray("units")
     THEN deny(400, BusinessMsg.unitsArray)
     ELSE IF supplied("units") /\ HasDuplicates(keys("units", UnitKey))
     THEN duplicate(BusinessMsg.duplicateUnits, Duplicates(keys("units", UnitKey)))
     ELSE IF supplied("units") /\ (blankName("units") \/ blankAbbreviation)
     THEN IF Trim(b.units.items[firstBadUnit].name) = <<>>
          THEN deny(400, BusinessMsg.unitName)
          ELSE deny(400, BusinessMsg.unitAbbreviation)
     ELSE IF supplied("productTypes") /\ ~isArray("productTypes")
     THEN deny(400, BusinessMsg.productTypesArray)
     ELSE IF supplied("productTypes")
               /\ HasDuplicates(keys("productTypes", ProductTypeKey))
     THEN duplicate(BusinessMsg.duplicateProductTypes,
                    Duplicates(keys("productTypes", ProductTypeKey)))
     ELSE IF supplied("productTypes") /\ blankName("productTypes")
     THEN deny(400, BusinessMsg.productTypeName)
     ELSE IF PreferencesInvalid(new)
     THEN [resp |-> errorHandler("updatePreferences", "ValidationError",
                                 MsgBusinessInvalid),
           saves |-> FALSE, preferences |-> old, paths |-> {}, named |-> <<>>]
     ELSE [resp |-> Response("updatePreferences", 200, BusinessMsg.preferencesUpdated, NoToken),
           saves |-> TRUE, preferences |-> new, paths |-> modified, named |-> <<>>]

\* A handler that saves the categories it assigned when a later collection
\* of the request fails.
UpdatePreferencesOutcomePartial(id, b) ==
  LET out == updatePreferences(id, b)
      first == updatePreferences(id, [b EXCEPT !.units = NotSupplied,
                                               !.productTypes = NotSupplied])
  IN IF ~out.saves /\ b.categories.kind = "array" /\ first.saves
     THEN [out EXCEPT !.saves = TRUE, !.paths = first.paths,
                      !.preferences = first.preferences]
     ELSE out

\* A handler that writes the three collections of the request, the ones
\* that were not supplied as empty arrays.
UpdatePreferencesOutcomeWhole(id, b) ==
  LET out == updatePreferences(id, b) IN
  IF out.saves
  THEN [out EXCEPT !.paths = {"categories", "units", "productTypes"},
                   !.preferences =
                      [f \in DOMAIN @ |-> IF b[f].kind = "array" THEN @[f] ELSE <<>>]]
  ELSE out

\* A handler that takes an empty array for a collection that is not
\* supplied.
UpdatePreferencesOutcomeLength(id, b) ==
  IF \A f \in {"categories", "units", "productTypes"} : b[f].items = <<>>
  THEN updatePreferences(id, [categories |-> NotSupplied, units |-> NotSupplied,
                              productTypes |-> NotSupplied])
  ELSE updatePreferences(id, b)

UpdatePreferencesOutcome(id, b) == updatePreferences(id, b)

MsgVersionError == "No matching document found"

\* business.save() of a loaded document whose modified paths are arrays:
\* updateOne({ _id, __v: <loaded> }, { $set: <modified paths>, $inc: { __v: 1 } }).
\* Replacing an array makes the update conditional on the revision the
\* document was loaded with; an update that matches nothing is a
\* VersionError.  A document without a modified path sends nothing.
SavePreferences(stored, version, paths, preferences) ==
  IF paths = {} THEN [error |-> "none", doc |-> stored]
  ELSE IF stored.version # version THEN [error |-> "VersionError", doc |-> stored]
  ELSE [error |-> "none",
        doc |-> [stored EXCEPT
                   !.preferences =
                      [f \in DOMAIN @ |-> IF f \in paths THEN preferences[f] ELSE @[f]],
                   !.version = @ + 1]]

\* PUT /api/business/preferences: protect, authorize('owner'),
\* preferencesValidation, validate, updatePreferences.  A populated business
\* of null makes `req.user.business._id` throw into the catch block.
\* The request from `Business.findById` to `business.save()` in one step.
UpdatePreferencesRequest(call, storeFails) ==
  /\ LET   token == call[1]
           b == call[2]
           op == "updatePreferences"
           guard == Protect(op, token)
           id == guard.user
           bid == users[id].business
           out == UpdatePreferencesOutcome(id, b)
           saved == SavePreferences(businesses[bid], businesses[bid].version,
                                    out.paths, out.preferences)
       IN IF id = NoId
          THEN resp' = guard.resp /\ UNCHANGED businesses
          ELSE IF Authorize(op, id, {"owner"}).op # "next"
          THEN resp' = Authorize(op, id, {"owner"}) /\ UNCHANGED businesses
          ELSE IF PreferencesValidationErrors(b) # {}
          THEN /\ resp' = Response(op, 400, MsgValidationFailed, NoToken)
               /\ UNCHANGED businesses
          ELSE IF bid \notin DOMAIN businesses \/ storeFails
          THEN resp' = errorHandler(op, "Other", MsgInternal) /\ UNCHANGED businesses
          ELSE /\ out.paths # {} => businesses[bid].version < MaxVersion
               /\ resp' = out.resp
               /\ businesses' =
                    IF out.saves
                    THEN [businesses EXCEPT ![bid] = saved.doc]
                    ELSE businesses
  /\ UNCHANGED <<users, reg, now, limiter, prefReq>>

UpdatePreferences ==
  \E call \in Calls(UpdatePreferencesBodies) : \E storeFails \in BOOLEAN :
    UpdatePreferencesRequest(call, storeFails)

\* The route with requests that name a business.
UpdatePreferencesTenant ==
  \E call \in Calls(TenantPreferencesBodies) : \E storeFails \in BOOLEAN :
    UpdatePreferencesRequest(call, storeFails)

\* The route with requests whose elements carry their optional fields.
UpdatePreferencesElements ==
  \E call \in Calls(ElementBodies) : \E storeFails \in BOOLEAN :
    UpdatePreferencesRequest(call, storeFails)

\* The same route with other requests running between its database
\* operations: up to and including `Business.findById` and the checks and
\* assignments of the handler, which touch the loaded document only.
UpdatePreferencesBegin(p) ==
  /\ prefReq[p].pc = "idle"
  /\ \E call \in Calls(ReplaceBodies) : \E storeFails \in BOOLEAN :
       LET token == call[1]
           b == call[2]
           op == "updatePreferences"
           guard == Protect(op, token)
           id == guard.user
           bid == users[id].business
           out == UpdatePreferencesOutcome(id, b)
       IN IF id = NoId
          THEN resp' = guard.resp /\ UNCHANGED prefReq
          ELSE IF Authorize(op, id, {"owner"}).op # "next"
          THEN resp' = Authorize(op, id, {"owner"}) /\ UNCHANGED prefReq
          ELSE IF PreferencesValidationErrors(b) # {}
          THEN /\ resp' = Response(op, 400, MsgValidationFailed, NoToken)
               /\ UNCHANGED prefReq
          ELSE IF bid \notin DOMAIN businesses \/ storeFails
          THEN resp' = errorHandler(op, "Other", MsgInternal) /\ UNCHANGED prefReq
          ELSE IF ~out.saves
          THEN resp' = out.resp /\ UNCHANGED prefReq
          ELSE /\ out.paths # {} => businesses[bid].version < MaxVersion
               /\ prefReq' = [prefReq EXCEPT ![p] =
                    [pc |-> "save", business |-> bid,
                     version |-> businesses[bid].version,
                     paths |-> out.paths,
                     preferences |->
                       [f \in DOMAIN out.preferences |->
                          IF f \in out.paths THEN out.preferences[f] ELSE <<>>]]]
               /\ UNCHANGED resp
  /\ UNCHANGED <<users, businesses, reg, now, limiter>>

\* await business.save() and the 200 response, or the error of the save
\* through next(error).
UpdatePreferencesSave(p) ==
  /\ prefReq[p].pc = "save"
  /\ \E storeFails \in BOOLEAN :
       LET r == prefReq[p]
           op == "updatePreferences"
           saved == SavePreferences(businesses[r.business], r.version, r.paths,
                                    r.preferences)
       IN IF storeFails
          THEN resp' = errorHandler(op, "Other", MsgInternal) /\ UNCHANGED businesses
          ELSE IF saved.error # "none"
          THEN /\ resp' = errorHandler(op, saved.error, MsgVersionError)
               /\ UNCHANGED businesses
          ELSE /\ resp' = Response(op, 200, BusinessMsg.preferencesUpdated, NoToken)
               /\ businesses' = [businesses EXCEPT ![r.business] = saved.doc]
  /\ prefReq' = [prefReq EXCEPT ![p] = IdlePref]
  /\ UNCHANGED <<users, reg, now, limiter>>

\* The stored document has no `preferences` field.
MissingPreferences == [missing |-> TRUE]

\* business.preferences of a loaded document.  `preferences` is a nested
\* path: its getter returns an object for every document, and the array
\* paths below it that the stored document lacks are set to [] when the
\* document is hydrated.
HydratedPreferences(stored) ==
  IF stored.preferences = MissingPreferences THEN EmptyPreferences
  ELSE stored.preferences

\* The truth value of an object or of null.
ObjectTruthy(value) == value # NoDoc

\* getPreferences for the account the guard resolved: `!business.preferences`
\* is false for every document, so that the handler saves nothing.
GetPreferencesOutcome(id) ==
  LET loaded == HydratedPreferences(businesses[users[id].business]) IN
  [resp |-> Response("getPreferences", 200, BusinessMsg.preferencesRetrieved, NoToken),
   preferences |-> loaded,
   totals |-> [f \in DOMAIN loaded |-> Len(loaded[f])],
   saves |-> ~ObjectTruthy(loaded)]

\* GET /api/business/preferences: protect, getPreferences.
GetPreferences ==
  /\ \E token \in Tokens : \E storeFails \in BOOLEAN :
       LET op == "getPreferences"
           guard == Protect(op, token)
           id == guard.user
           out == GetPreferencesOutcome(id)
       IN IF id = NoId THEN resp' = guard.resp /\ UNCHANGED businesses
          ELSE IF users[id].business \notin DOMAIN businesses \/ storeFails
          THEN resp' = errorHandler(op, "Other", MsgInternal) /\ UNCHANGED businesses
          ELSE /\ resp' = out.resp
               /\ businesses' =
                    IF out.saves
                    THEN [businesses EXCEPT
                            ![users[id].business].preferences = out.preferences]
                    ELSE businesses
  /\ UNCHANGED <<users, reg, now, limiter, prefReq>>

\* A business stored before the schema had preferences: its document has
\* no such field (the documents that scripts/migratePreferences.js looks
\* for).
LegacyBusiness ==
  /\ \E b \in DOMAIN businesses :
       /\ businesses[b].preferences # MissingPreferences
       /\ businesses' = [businesses EXCEPT ![b].preferences = MissingPreferences]
  /\ UNCHANGED <<users, reg, now, resp, limiter, prefReq>>

\* A profile update that copies every field of the body, `owner` included.
UpdateProfileOutcomeOwner(id, b) ==
  LET bid == users[id].business
      old == businesses[bid]
      set == [old EXCEPT !.name = IF Truthy(b.name) THEN Trim(b.name) ELSE @,
                         !.industry = IF Truthy(b.industry) THEN b.industry ELSE @,
                         !.owner = IF b.owner # NoId THEN b.owner ELSE @]
  IN IF BusinessInvalidPaths(set) # {}
     THEN [resp |-> errorHandler("updateProfile", "ValidationError", MsgBusinessInvalid),
           saves |-> FALSE, business |-> old]
     ELSE [resp |-> Response("updateProfile", 200, BusinessMsg.profileUpdated, NoToken),
           saves |-> TRUE, business |-> set]

\* The messages of the validators of businessSchema; the message of an
\* enum validator carries the refused value where {VALUE} stands, and
\* Mongoose writes backquotes where these strings have quotes.
BusinessValidatorMsg ==
  [name |-> "Business name cannot exceed 100 characters",
   industry |-> "'{VALUE}' is not a valid enum value for path 'industry'.",
   email |-> "Please provide a valid email address",
   currency |-> "'{VALUE}' is not a valid enum value for path 'currency'.",
   owner |-> "Path 'owner' is required."]

MsgDuplicateRegistrationNumber == "Duplicate value for field: registrationNumber"

\* Object.values(err.errors).map(e => e.message).join(', ').
RECURSIVE JoinMessages(_)
JoinMessages(messages) ==
  IF messages = <<>> THEN ""
  ELSE IF Len(messages) = 1 THEN messages[1]
  ELSE messages[1] \o ", " \o JoinMessages(Tail(messages))

\* The message of the ValidationError of a business document.
BusinessValidationMessage(doc) ==
  LET fails(f) == f \in BusinessInvalidPaths(doc)
      paths == SelectSeq(<<"name", "industry", "email", "currency", "owner">>, fails)
  IN JoinMessages([i \in 1..Len(paths) |-> BusinessValidatorMsg[paths[i]]])

\* The unique sparse index on registrationNumber: another document holds
\* the value.
RegistrationNumberTaken(bid, doc) ==
  /\ doc.registrationNumber # NotSent
  /\ \E other \in DOMAIN businesses \ {bid} :
       businesses[other].registrationNumber = doc.registrationNumber

\* A handler that answers every error of the save as an internal error.
UpdateProfileOutcomeRaw(id, b) ==
  LET bid == users[id].business
      old == businesses[bid]
      set == [old EXCEPT
                !.name = IF Truthy(b.name) THEN Trim(b.name) ELSE @,
                !.industry = IF Truthy(b.industry) THEN b.industry ELSE @,
                !.currency = IF Truthy(b.currency) THEN b.currency ELSE @,
                !.registrationNumber =
                   IF b.registrationNumber # NotSent
                   THEN Trim(b.registrationNumber) ELSE @]
  IN IF BusinessInvalidPaths(set) # {} \/ RegistrationNumberTaken(bid, set)
     THEN [resp |-> errorHandler("updateProfile", "Other", MsgInternal),
           saves |-> FALSE, business |-> old]
     ELSE [resp |-> Response("updateProfile", 200, BusinessMsg.profileUpdated, NoToken),
           saves |-> TRUE, business |-> set]

\* The handler for the account the guard resolved: its response, and the
\* document it saves when `saves` holds.  It reads name, industry, currency
\* and registrationNumber of the body (and seven more fields that the model
\* leaves out).  The save validates the document and then updates it under
\* the unique index.
UpdateProfileOutcome(id, b) ==
  LET bid == users[id].business
      old == businesses[bid]
      set == [old EXCEPT
                !.name = IF Truthy(b.name) THEN Trim(b.name) ELSE @,
                !.industry = IF Truthy(b.industry) THEN b.industry ELSE @,
                !.currency = IF Truthy(b.currency) THEN b.currency ELSE @,
                !.registrationNumber =
                   IF b.registrationNumber # NotSent
                   THEN Trim(b.registrationNumber) ELSE @]
  IN IF BusinessInvalidPaths(set) # {}
     THEN [resp |-> errorHandler("updateProfile", "ValidationError",
                                 BusinessValidationMessage(set)),
           saves |-> FALSE, business |-> old]
     ELSE IF RegistrationNumberTaken(bid, set)
     THEN [resp |-> errorHandler("updateProfile", "DuplicateKey",
                                 MsgDuplicateRegistrationNumber),
           saves |-> FALSE, business |-> old]
     ELSE [resp |-> Response("updateProfile", 200, BusinessMsg.profileUpdated, NoToken),
           saves |-> TRUE, business |-> set]

\* A profile update that loads the business a field of the body names,
\* when it names one, in place of the business of the account.
UpdateProfileRequestById(call, storeFails) ==
  /\ LET   token == call[1]
           b == call[2]
           op == "updateProfile"
           guard == Protect(op, token)
           id == guard.user
           out == UpdateProfileOutcome(id, b)
           target == IF b.businessId \in DOMAIN businesses
                     THEN b.businessId ELSE users[id].business
       IN IF id = NoId
          THEN resp' = guard.resp /\ UNCHANGED businesses
          ELSE IF Authorize(op, id, {"owner"}).op # "next"
          THEN resp' = Authorize(op, id, {"owner"}) /\ UNCHANGED businesses
          ELSE IF users[id].business \notin DOMAIN businesses \/ storeFails
          THEN resp' = errorHandler(op, "Other", MsgInternal) /\ UNCHANGED businesses
          ELSE /\ resp' = out.resp
               /\ businesses' = IF out.saves
                                THEN [businesses EXCEPT ![target] = out.business]
                                ELSE businesses
  /\ UNCHANGED <<users, reg, now, limiter, prefReq>>

\* PUT /api/business/profile: protect, authorize('owner'), updateProfile.
UpdateProfileRequest(call, storeFails) ==
  /\ LET   token == call[1]
           b == call[2]
           op == "updateProfile"
           guard == Protect(op, token)
           id == guard.user
           out == UpdateProfileOutcome(id, b)
       IN IF id = NoId
          THEN resp' = guard.resp /\ UNCHANGED businesses
          ELSE IF Authorize(op, id, {"owner"}).op # "next"
          THEN resp' = Authorize(op, id, {"owner"}) /\ UNCHANGED businesses
          ELSE IF users[id].business \notin DOMAIN businesses \/ storeFails
          THEN resp' = errorHandler(op, "Other", MsgInternal) /\ UNCHANGED businesses
          ELSE /\ resp' = out.resp
               /\ businesses' = IF out.saves
                                THEN [businesses EXCEPT ![users[id].business] = out.business]
                                ELSE businesses
  /\ UNCHANGED <<users, reg, now, limiter, prefReq>>

UpdateProfile ==
  \E call \in Calls(UpdateProfileBodies) : \E storeFails \in BOOLEAN :
    UpdateProfileRequest(call, storeFails)

\* The route with requests that name another tenant.
UpdateProfileTenant ==
  \E call \in Calls(TenantProfileBodies) : \E storeFails \in BOOLEAN :
    UpdateProfileRequest(call, storeFails)

\* The route with requests that the store refuses.
UpdateProfileFields ==
  \E call \in Calls(ProfileFieldBodies) : \E storeFails \in BOOLEAN :
    UpdateProfileRequest(call, storeFails)

(***************************************************************************)
(* Readers: GET /api/auth/me and GET /api/business/profile.                *)
(***************************************************************************)
MsgNullBusiness == "Cannot read properties of null (reading '_id')"
MsgNullOwner == "Cannot read properties of null (reading 'firstName')"

\* getMe for the account the guard resolved: the response and the business
\* it carries (NoDoc for `business: null`).
GetMeOutcome(id) ==
  IF id \notin DOMAIN users
  THEN [resp |-> Response("getMe", 404, AuthMsg.userNotFound, NoToken),
        business |-> NoDoc]
  ELSE [resp |-> Response("getMe", 200, "", NoToken),
        business |-> Populated(businesses, users[id])]

\* GET /api/auth/me: protect, getMe.
GetMe ==
  /\ \E token \in Tokens : \E storeFails \in BOOLEAN :
       LET op == "getMe"
           guard == Protect(op, token)
       IN IF guard.user = NoId THEN resp' = guard.resp
          ELSE IF storeFails THEN resp' = errorHandler(op, "Other", MsgInternal)
          ELSE resp' = GetMeOutcome(guard.user).resp
  /\ UNCHANGED <<users, businesses, reg, now, limiter, prefReq>>

\* getProfile for the account the guard resolved: the response and the
\* owner it carries (NoId when it carries none).  req.user.business is the
\* business the guard populated; `owner` is populated from the accounts.
GetProfileOutcome(id) ==
  LET op == "getProfile"
      fails(answer) == [resp |-> answer, owner |-> NoId]
      business == Populated(businesses, users[id])
  IN IF business = NoDoc
     THEN fails(errorHandler(op, "TypeError", MsgNullBusiness))
     ELSE IF business.owner \notin DOMAIN users
     THEN fails(errorHandler(op, "TypeError", MsgNullOwner))
     ELSE [resp |-> Response(op, 200, "", NoToken), owner |-> business.owner]

\* GET /api/business/profile: protect, getProfile.
GetProfile ==
  /\ \E token \in Tokens : \E storeFails \in BOOLEAN :
       LET op == "getProfile"
           guard == Protect(op, token)
       IN IF guard.user = NoId THEN resp' = guard.resp
          ELSE IF storeFails THEN resp' = errorHandler(op, "Other", MsgInternal)
          ELSE resp' = GetProfileOutcome(guard.user).resp
  /\ UNCHANGED <<users, businesses, reg, now, limiter, prefReq>>

(***************************************************************************)
(* POST /api/auth/logout: protect, logout.                                 *)
(***************************************************************************)
\* A logout that ends the session on the server by closing the account.
LogoutOutcomeClosing(id) ==
  [resp |-> Response("logout", 200, AuthMsg.loggedOut, NoToken),
   users |-> [users EXCEPT ![id].isActive = FALSE]]

\* logout for the account the guard resolved: the response, and the
\* accounts after it (the handler logs the email and writes nothing).
LogoutOutcome(id) ==
  [resp |-> Response("logout", 200, AuthMsg.loggedOut, NoToken),
   users |-> users]

Logout ==
  /\ \E token \in Tokens :
       LET guard == Protect("logout", token) IN
       IF guard.user = NoId
       THEN resp' = guard.resp /\ UNCHANGED users
       ELSE /\ resp' = LogoutOutcome(guard.user).resp
            /\ users' = LogoutOutcome(guard.user).users
  /\ UNCHANGED <<businesses, reg, now, limiter, prefReq>>

(***************************************************************************)
(* Changes made to the collections outside the handlers: an operator sets  *)
(* the isActive flag of an account or of a business.                       *)
(***************************************************************************)
DeactivateUser ==
  /\ \E u \in DOMAIN users :
       /\ users[u].isActive
       /\ users' = [users EXCEPT ![u].isActive = FALSE]
  /\ UNCHANGED <<businesses, reg, now, resp, limiter, prefReq>>

\* The roles of userSchema.role other than the one registration assigns.
NonOwnerRoles == {"admin", "manager", "employee"}

SetRole ==
  /\ \E u \in DOMAIN users : \E r \in NonOwnerRoles :
       /\ users[u].role = "owner"
       /\ users' = [users EXCEPT ![u].role = r]
  /\ UNCHANGED <<businesses, reg, now, resp, limiter, prefReq>>

DeactivateBusiness ==
  /\ \E b \in DOMAIN businesses :
       /\ businesses[b].isActive
       /\ businesses' = [businesses EXCEPT ![b].isActive = FALSE]
  /\ UNCHANGED <<users, reg, now, resp, limiter, prefReq>>

Next ==
  \/ \E p \in Single : RegisterBegin(p)
  \/ \E p \in Single : SaveTempUser(p)
  \/ \E p \in Single : SaveBusiness(p)
  \/ \E p \in Single : SaveUserAgain(p)
  \/ \E p \in Single : Commit(p)
  \/ \E p \in Single : RegisterCatch(p)
  \/ Login
  \/ UpdatePassword
  \/ DeactivateUser
  \/ DeactivateBusiness
  \/ Tick

Spec == Init /\ [][Next]_vars

\* The operations on accounts and on businesses, without the changes made
\* outside the handlers and with the clock at rest.
NextOps ==
  \/ \E p \in Single : RegisterBegin(p)
  \/ \E p \in Single : SaveTempUser(p)
  \/ \E p \in Single : SaveBusiness(p)
  \/ \E p \in Single : SaveUserAgain(p)
  \/ \E p \in Single : Commit(p)
  \/ \E p \in Single : RegisterCatch(p)
  \/ Login
  \/ UpdatePassword
  \/ UpdateProfile
  \/ UpdatePreferences

SpecOps == Init /\ [][NextOps]_vars

(***************************************************************************)
(* Rate limiters (middleware/rateLimiter.js): apiLimiter on /api,          *)
(* registerLimiter on POST /register, authLimiter on POST /login.  Each    *)
(* keeps, per client IP, the number of requests of the current window; the *)
(* model follows one client IP.                                            *)
(***************************************************************************)
Limiters == {"api", "auth", "register"}

Max == [api |-> ApiMax, auth |-> AuthMax, register |-> RegisterMax]

\* store.increment(key).  The count is kept up to Max + 1: the limiter
\* tests nothing but `hits > max`.
Hit(hits, max) == IF hits > max THEN hits ELSE hits + 1

\* A limiter that lets one request more through.
LimitedLate(hits, max) == hits > max + 1

\* The test of a limiter on the count that includes the request.
Limited(hits, max) == hits > max

TooMany(op, l) == Response(op, 429, RateMsg[l], NoToken)

\* The two limiters in front of a route: the counters after the request,
\* and the limiter that refuses it ("none" when it passes both).
Limit(l) ==
  LET api == Hit(limiter.api, ApiMax)
      own == Hit(limiter[l], Max[l])
  IN IF Limited(api, ApiMax)
     THEN [by |-> "api", hits |-> [limiter EXCEPT !.api = api]]
     ELSE IF Limited(own, Max[l])
     THEN [by |-> l, hits |-> [limiter EXCEPT !.api = api, ![l] = own]]
     ELSE [by |-> "none", hits |-> [limiter EXCEPT !.api = api, ![l] = own]]

\* The login requests of one client: the right and a wrong password.
LimitedLoginBodies == [email : {EmailA}, password : {PwOne, PwTwo}]

\* POST /api/auth/login: apiLimiter, authLimiter, loginValidation, validate,
\* login.
LoginRoute ==
  \E raw \in LimitedLoginBodies : \E salt \in Salts :
    LET limit == Limit("auth") IN
    /\ limiter' = limit.hits
    /\ IF limit.by = "none"
       THEN LoginRequest(raw, salt)
       ELSE /\ resp' = TooMany("login", limit.by)
            /\ UNCHANGED <<users, businesses, reg, now, prefReq>>

\* POST /api/auth/register: apiLimiter, registerLimiter, registerValidation,
\* validate, register.
RegisterRoute(p) ==
  \E raw \in BaseRegisterBodies :
    LET limit == Limit("register") IN
    /\ limiter' = limit.hits
    /\ IF limit.by = "none"
       THEN RegisterRequest(p, raw)
       ELSE /\ resp' = TooMany("register", limit.by)
            /\ UNCHANGED <<users, businesses, reg, now, prefReq>>

\* The window of a limiter ends: its counts are reset.
WindowEnds(l) ==
  /\ limiter[l] > 0
  /\ limiter' = [limiter EXCEPT ![l] = 0]
  /\ UNCHANGED <<users, businesses, reg, now, resp, prefReq>>

NextLimits ==
  \/ \E p \in Single : RegisterRoute(p)
  \/ \E p \in Single : SaveTempUser(p)
  \/ \E p \in Single : SaveBusiness(p)
  \/ \E p \in Single : SaveUserAgain(p)
  \/ \E p \in Single : Commit(p)
  \/ \E p \in Single : RegisterCatch(p)
  \/ LoginRoute
  \/ \E l \in Limiters : WindowEnds(l)

SpecLimits == Init /\ [][NextLimits]_vars

\* Registrations of two emails that run together, and the readers.
ConcurrentRegisterBodies ==
  {b \in CompleteRegisterBodies :
     b.email \in {EmailA, EmailB} /\ b.password = PwOne /\ b.businessEmail = Absent}

RegisterConcurrent(p) ==
  \E raw \in ConcurrentRegisterBodies :
    RegisterRequest(p, raw) /\ UNCHANGED limiter

NextReaders ==
  \/ \E p \in Procs : RegisterConcurrent(p)
  \/ \E p \in Procs : SaveTempUser(p)
  \/ \E p \in Procs : SaveBusiness(p)
  \/ \E p \in Procs : SaveUserAgain(p)
  \/ \E p \in Procs : Commit(p)
  \/ \E p \in Procs : RegisterCatch(p)
  \/ Login
  \/ GetMe
  \/ GetProfile

SpecReaders == Init /\ [][NextReaders]_vars

\* Sessions: login, the guarded reads, logout, and accounts closed.
NextSessions ==
  \/ \E p \in Single : RegisterSeed(p)
  \/ \E p \in Single : SaveTempUser(p)
  \/ \E p \in Single : SaveBusiness(p)
  \/ \E p \in Single : SaveUserAgain(p)
  \/ \E p \in Single : Commit(p)
  \/ \E p \in Single : RegisterCatch(p)
  \/ Login
  \/ GetMe
  \/ Logout
  \/ OptionalRequest
  \/ DeactivateUser
  \/ Tick

SpecSessions == Init /\ [][NextSessions]_vars

\* Reads of the preferences of businesses with and without the field.
NextLegacy ==
  \/ \E p \in Procs : RegisterConcurrent(p)
  \/ \E p \in Procs : SaveTempUser(p)
  \/ \E p \in Procs : SaveBusiness(p)
  \/ \E p \in Procs : SaveUserAgain(p)
  \/ \E p \in Procs : Commit(p)
  \/ \E p \in Procs : RegisterCatch(p)
  \/ LegacyBusiness
  \/ GetPreferences

SpecLegacy == Init /\ [][NextLegacy]_vars

\* Replacements of the preferences with elements of every shape.
NextElements ==
  \/ \E p \in Single : RegisterSeed(p)
  \/ \E p \in Single : SaveTempUser(p)
  \/ \E p \in Single : SaveBusiness(p)
  \/ \E p \in Single : SaveUserAgain(p)
  \/ \E p \in Single : Commit(p)
  \/ \E p \in Single : RegisterCatch(p)
  \/ UpdatePreferencesElements
  \/ GetPreferences

SpecElements == Init /\ [][NextElements]_vars

\* Profile updates of two businesses.
NextProfile ==
  \/ \E p \in Single : RegisterConcurrent(p)
  \/ \E p \in Single : SaveTempUser(p)
  \/ \E p \in Single : SaveBusiness(p)
  \/ \E p \in Single : SaveUserAgain(p)
  \/ \E p \in Single : Commit(p)
  \/ \E p \in Single : RegisterCatch(p)
  \/ UpdateProfileFields
  \/ GetProfile

SpecProfile == Init /\ [][NextProfile]_vars

\* Two tenants, registered one after the other, and the four business
\* routes.
NextTenants ==
  \/ \E p \in Single : RegisterConcurrent(p)
  \/ \E p \in Single : SaveTempUser(p)
  \/ \E p \in Single : SaveBusiness(p)
  \/ \E p \in Single : SaveUserAgain(p)
  \/ \E p \in Single : Commit(p)
  \/ \E p \in Single : RegisterCatch(p)
  \/ UpdateProfileTenant
  \/ UpdatePreferencesTenant
  \/ GetProfile
  \/ GetPreferences

SpecTenants == Init /\ [][NextTenants]_vars

\* Logins of one registered account, with the account and its business
\* closed and time passing.
NextLogins ==
  \/ \E p \in Single : RegisterSeed(p)
  \/ \E p \in Single : SaveTempUser(p)
  \/ \E p \in Single : SaveBusiness(p)
  \/ \E p \in Single : SaveUserAgain(p)
  \/ \E p \in Single : Commit(p)
  \/ \E p \in Single : RegisterCatch(p)
  \/ Login
  \/ DeactivateUser
  \/ DeactivateBusiness
  \/ Tick

SpecLogins == Init /\ [][NextLogins]_vars

\* Registration with a failure after the commit.
NextTransactions ==
  \/ \E p \in Single : RegisterBegin(p)
  \/ \E p \in Single : SaveTempUser(p)
  \/ \E p \in Single : SaveBusiness(p)
  \/ \E p \in Single : SaveUserAgain(p)
  \/ \E p \in Single : Commit(p)
  \/ \E p \in Single : CommitTokenFails(p)
  \/ \E p \in Single : RegisterCatch(p)

SpecTransactions == Init /\ [][NextTransactions]_vars

\* The owner-only routes with accounts of every role.
NextRoles ==
  \/ \E p \in Single : RegisterSeed(p)
  \/ \E p \in Single : SaveTempUser(p)
  \/ \E p \in Single : SaveBusiness(p)
  \/ \E p \in Single : SaveUserAgain(p)
  \/ \E p \in Single : Commit(p)
  \/ \E p \in Single : RegisterCatch(p)
  \/ SetRole
  \/ UpdateProfile
  \/ UpdatePreferences

SpecRoles == Init /\ [][NextRoles]_vars

\* Registrations, preference reads and preference replacements, with two
\* replacements in flight together.
NextPrefs ==
  \/ \E p \in Single : RegisterSeed(p)
  \/ \E p \in Single : SaveTempUser(p)
  \/ \E p \in Single : SaveBusiness(p)
  \/ \E p \in Single : SaveUserAgain(p)
  \/ \E p \in Single : Commit(p)
  \/ \E p \in Single : RegisterCatch(p)
  \/ \E p \in Procs : UpdatePreferencesBegin(p)
  \/ \E p \in Procs : UpdatePreferencesSave(p)
  \/ GetPreferences

SpecPrefs == Init /\ [][NextPrefs]_vars

(***************************************************************************)
(* Properties.                                                             *)
(***************************************************************************)
RequiredFields == {"firstName", "lastName", "email", "password", "businessName"}

\* A registration request that passes registerValidation and the
\* required-fields test of the handler.
WellFormedRegister(raw) ==
  /\ RegisterValidationErrors(raw) = {}
  /\ RequiredFieldsPresent(RegisterSanitized(raw))

BusinessOf(u) == users[u].business

BusinessUsable(u) ==
  /\ BusinessOf(u) \in DOMAIN businesses
  /\ businesses[BusinessOf(u)].isActive

\* C1: registration is all-or-nothing.  Whatever step of a registration
\* fails (account save, business save, second account save, commit), the
\* committed store holds a new Account together with its Business or
\* neither: every committed Account references a committed Business, every
\* committed Business is owned by a committed Account, and there are as
\* many of the ones as of the others.
RegistrationAllOrNothing ==
  /\ \A u \in DOMAIN users : users[u].business \in DOMAIN businesses
  /\ \A b \in DOMAIN businesses : businesses[b].owner \in DOMAIN users
  /\ Cardinality(DOMAIN users) = Cardinality(DOMAIN businesses)

\* A registration failed in one of its steps while a committed pair exists.
RegistrationFailedPartway ==
  /\ resp.op = "register" /\ resp.status \in {0, 500}
  /\ DOMAIN users # {}
  /\ reg["r1"].pc = "idle"

\* C2: mutual reference.  In every state reached by register, login,
\* password rotation, profile update and preferences update, the Business
\* an Account references is owned by that Account and the owner of a
\* Business references that Business.
MutualReference ==
  /\ \A u \in DOMAIN users :
       /\ users[u].business \in DOMAIN businesses
       /\ businesses[users[u].business].owner = u
  /\ \A b \in DOMAIN businesses :
       /\ businesses[b].owner \in DOMAIN users
       /\ users[businesses[b].owner].business = b

\* Two registered pairs, one of them renamed by a profile update.
ProfileUpdatedAmongTwo ==
  /\ resp.op = "updateProfile" /\ resp.status = 200
  /\ Cardinality(DOMAIN users) = 2
  /\ \E b \in DOMAIN businesses : businesses[b].name = ShopTwo

RegisteredBusinessHasDefaults ==
  \A b \in DOMAIN businesses : businesses[b].preferences = DefaultPreferences

\* C5: a registration request without one of firstName, lastName, email,
\* password, businessName is answered 400 with the required-fields message
\* by the route (registerValidation, validate, register).
MissingFieldGetsFieldList ==
  \A raw \in RegisterBodies :
    (\E f \in RequiredFields : raw[f] = Absent)
      => RegisterBeginOutcome(raw)
           = Response("register", 400, AuthMsg.requiredFields, NoToken)

\* C6: login with the email and the password of an active Account whose
\* Business exists and is active is answered 200 with the token of that
\* Account.  The password of an Account is the text its stored hash was
\* computed from, at registration or at the last rotation.
CorrectLoginSucceeds ==
  \A raw \in LoginBodies : \A u \in FindByEmail(users, raw.email) :
    (raw.password = users[u].password.text /\ users[u].isActive /\ BusinessUsable(u))
      => LoginOutcome(raw)
           = [resp |-> Response("login", 200, AuthMsg.loginOk, generateToken(u)),
              user |-> u]

\* A login succeeded for a registered Account.
LoggedIn ==
  /\ resp.op = "login" /\ resp.status = 200
  /\ resp.token.id \in DOMAIN users

\* A login request that passes loginValidation with a password that is not
\* the one of the Account of its email, if there is one.
WrongPassword(raw) ==
  /\ LoginValidationErrors(raw) = {}
  /\ \A u \in FindByEmail(users, raw.email) :
       ~BcryptCompare(raw.password, users[u].password)

\* C7 as stated: a login with an incorrect password is answered 401
\* "Invalid credentials" whether the email belongs to no Account, to an
\* active Account or to a deactivated one.
WrongPasswordAlwaysGeneric ==
  \A raw \in LoginBodies :
    WrongPassword(raw)
      => LoginOutcome(raw).resp
           = Response("login", 401, AuthMsg.invalidCredentials, NoToken)

\* C7: a login with an incorrect password is answered 401 "Invalid
\* credentials" when the email belongs to no Account or to an active one,
\* and 401 with the deactivation message when it belongs to a deactivated
\* Account.
WrongPasswordGenericUnlessDeactivated ==
  \A raw \in LoginBodies :
    WrongPassword(raw)
      => LoginOutcome(raw).resp
           = IF \E u \in FindByEmail(users, raw.email) : ~users[u].isActive
             THEN Response("login", 401, AuthMsg.deactivated, NoToken)
             ELSE Response("login", 401, AuthMsg.invalidCredentials, NoToken)

\* A login was answered "Invalid credentials" while an active and a
\* deactivated Account exist.
WrongPasswordAnswered ==
  /\ resp = Response("login", 401, AuthMsg.invalidCredentials, NoToken)
  /\ \E u \in DOMAIN users : users[u].isActive
  /\ \E u \in DOMAIN users : ~users[u].isActive

\* The body of a login with the email of an Account.
LoginBody(id, password) == [email |-> users[id].email, password |-> password]

\* A step of the rotation handler that answers 200 to the body b sent with
\* the token of the Account id.
RotationStep(id, b, salt) ==
  /\ id \in DOMAIN users /\ users[id].isActive
  /\ resp' = UpdatePasswordOutcome(id, b, salt).resp
  /\ users' = [users EXCEPT ![id] =
                 SetModified(users[id], UpdatePasswordOutcome(id, b, salt).save)]
  /\ UNCHANGED <<businesses, reg, now, limiter, prefReq>>

\* The status of a login after the step.
LoginStatusAfter(id, password) ==
  LoginHandler(users', businesses', LoginBody(id, password)).resp.status

\* C8 as stated: after every rotation the handler accepts, from P1 to P2
\* equal or not, a login with P1 fails and a login with P2 succeeds.
RotationInvalidatesOldPassword ==
  [][(resp'.op = "updatePassword" /\ resp'.status = 200)
       => \A id \in UserIds : \A b \in UpdatePasswordBodies : \A salt \in Salts :
            RotationStep(id, b, salt)
              => /\ LoginStatusAfter(id, b.currentPassword) # 200
                 /\ LoginStatusAfter(id, b.newPassword) = 200]_vars

\* C8: after a rotation the handler accepts from P1 to a different P2, a
\* login with P1 fails and a login with P2 passes the password check (it is
\* answered 200 when the Business of the Account is active and 403 when it
\* is not); a step that is no accepted rotation leaves the stored hash of
\* every Account as it was, an accepted rotation from P1 to P1 leaves P1 valid.
RotationReplacesPassword ==
  [][/\ (resp'.op = "updatePassword" /\ resp'.status = 200)
          => \A id \in UserIds : \A b \in UpdatePasswordBodies : \A salt \in Salts :
               RotationStep(id, b, salt)
                 => /\ LoginStatusAfter(id, b.newPassword)
                         = IF BusinessUsable(id) THEN 200 ELSE 403
                    /\ b.newPassword # b.currentPassword
                         => LoginStatusAfter(id, b.currentPassword) = 401
     /\ \A u \in DOMAIN users :
          (u \in DOMAIN users' /\ users'[u].password # users[u].password)
            => (resp'.op = "updatePassword" /\ resp'.status = 200
                  /\ resp'.token = generateToken(u))]_vars

\* A rotation to a different password was accepted: the Account registered
\* with PwOne holds PwTwo.
RotatedToOther ==
  /\ resp.op = "updatePassword" /\ resp.status = 200
  /\ resp.token.id \in DOMAIN users
  /\ users[resp.token.id].password.text = PwTwo

\* C9: with the correct current password the rotation handler accepts every
\* new password of at least RotationPasswordMin characters (200, a token,
\* the new hash saved) and answers 400 without a save to every shorter one.
RotationAcceptsSixOrMore ==
  \A id \in DOMAIN users : \A b \in UpdatePasswordBodies : \A salt \in Salts :
    (Truthy(b.newPassword) /\ BcryptCompare(b.currentPassword, users[id].password))
      => LET out == UpdatePasswordOutcome(id, b, salt) IN
         IF Len(b.newPassword) >= RotationPasswordMin
         THEN /\ out.resp = Response("updatePassword", 200, AuthMsg.passwordUpdated,
                                     generateToken(id))
              /\ out.save # NoDoc
              /\ BcryptCompare(b.newPassword, out.save.password)
         ELSE out.resp.status = 400 /\ out.save = NoDoc

GuardRefusals ==
  {GuardMsg.noToken, GuardMsg.invalidToken, GuardMsg.userGone,
   GuardMsg.accountDeactivated}

ProtectAdmitsExactlyActiveAccounts ==
  /\ [](\A t \in Tokens :
          LET guard == Protect("me", t) IN
          /\ guard.user # NoId <=>
                (t.kind = "jwt" /\ t.id \in DOMAIN users /\ users[t.id].isActive)
          /\ guard.user # NoId => guard.user = t.id
          /\ guard.user = NoId =>
                (guard.resp.status = 401 /\ guard.resp.message \in GuardRefusals))
  /\ [][(resp' # resp /\ resp'.message \in GuardRefusals)
          => (resp'.status = 401 /\ UNCHANGED <<users, businesses>>)]_vars

\* A rotation request with the token of a deactivated account was refused.
GuardRefusedDeactivated ==
  /\ resp.op = "updatePassword"
  /\ resp.message = GuardMsg.accountDeactivated
  /\ \E u \in DOMAIN users : ~users[u].isActive


(***************************************************************************)
(* C12.  Owner-only routes: for an account whose role is admin, manager or *)
(* employee the role check of PUT /profile and PUT /preferences answers    *)
(* 403; a step that answers 403 changes no account and no business, and a  *)
(* step of these routes that answers 200 or changes a business was made    *)
(* for an active account with the owner role.                              *)
(***************************************************************************)
OwnerOnlyOps == {"updateProfile", "updatePreferences"}

NonOwnerForbidden ==
  /\ [](\A u \in DOMAIN users : \A op \in OwnerOnlyOps :
          users[u].role \in NonOwnerRoles =>
            /\ Authorize(op, u, {"owner"}).status = 403
            /\ Authorize(op, u, {"owner"}).message = GuardMsg.roleNotAuthorized)
  /\ [][/\ (resp' # resp /\ resp'.status = 403)
             => UNCHANGED <<users, businesses>>
         /\ \A b \in DOMAIN businesses :
              businesses'[b] # businesses[b] =>
                \E u \in DOMAIN users :
                  /\ users[u].business = b
                  /\ users[u].role = "owner"
                  /\ users[u].isActive
                  /\ resp'.op \in OwnerOnlyOps /\ resp'.status = 200]_vars

\* A preferences request of an account that is no owner was refused.
NonOwnerRefused ==
  /\ resp.op = "updatePreferences"
  /\ resp.status = 403
  /\ \E u \in DOMAIN users : users[u].role \in NonOwnerRoles


(***************************************************************************)
(* C13.  Preferences uniqueness: in every state reached by registrations,  *)
(* preference reads and preference replacements, no stored collection has  *)
(* two elements with the same normalized key (lower-cased trimmed name for *)
(* categories and product types, upper-cased trimmed abbreviation for      *)
(* units).                                                                 *)
(***************************************************************************)
NormalName(e) == ToLower(Trim(e.name))
NormalAbbreviation(e) == ToUpper(Trim(e.abbreviation))

PreferencesUnique ==
  \A b \in DOMAIN businesses :
    LET prefs == businesses[b].preferences IN
    /\ \A i, j \in 1..Len(prefs.categories) :
         i # j => NormalName(prefs.categories[i]) # NormalName(prefs.categories[j])
    /\ \A i, j \in 1..Len(prefs.units) :
         i # j => NormalAbbreviation(prefs.units[i]) # NormalAbbreviation(prefs.units[j])
    /\ \A i, j \in 1..Len(prefs.productTypes) :
         i # j => NormalName(prefs.productTypes[i]) # NormalName(prefs.productTypes[j])

\* A business holds two categories and two units that replacements stored.
TwoCategoriesAndTwoUnitsStored ==
  \E b \in DOMAIN businesses :
    /\ Len(businesses[b].preferences.categories) = 2
    /\ Len(businesses[b].preferences.units) = 2


(***************************************************************************)
(* C14.  A replace request in which a supplied collection has two elements *)
(* with the same normalized key is answered 400 and stores nothing.  As    *)
(* stated (the answer always names the duplicated values) the claim fails  *)
(* for a request whose earlier collection has an element without a name;   *)
(* the answer names the duplicated values whenever it is the answer of the *)
(* duplicate check.                                                        *)
(***************************************************************************)
Collections == {"categories", "units", "productTypes"}

NormalKey(f, e) == IF f = "units" THEN NormalAbbreviation(e) ELSE NormalName(e)

\* The normalized keys that two elements of collection f of body b share.
RepeatedKeys(b, f) ==
  {NormalKey(f, b[f].items[i]) : i \in
     {i \in 1..Len(b[f].items) :
        \E j \in 1..Len(b[f].items) :
          i # j /\ NormalKey(f, b[f].items[i]) = NormalKey(f, b[f].items[j])}}

HasRepeatedKeys(b) == \E f \in Collections : RepeatedKeys(b, f) # {}

DuplicateMessage ==
  [categories |-> BusinessMsg.duplicateCategories,
   units |-> BusinessMsg.duplicateUnits,
   productTypes |-> BusinessMsg.duplicateProductTypes]

\* The accounts for which the handler finds its business.
Owners == {u \in DOMAIN users : users[u].business \in DOMAIN businesses}

\* The replace requests that pass preferencesValidation.
ValidReplaceBodies == {b \in ReplaceBodies : PreferencesValidationErrors(b) = {}}

\* The claim as stated: the answer is 400 and names duplicated values.
DuplicateKeysAlwaysNamed ==
  \A u \in Owners : \A b \in ValidReplaceBodies :
    HasRepeatedKeys(b) =>
      LET out == UpdatePreferencesOutcome(u, b) IN
      /\ out.resp.status = 400
      /\ ~out.saves
      /\ out.named # <<>>

DuplicateKeysRejected ==
  /\ [](\A u \in Owners : \A b \in ValidReplaceBodies :
          HasRepeatedKeys(b) =>
            LET out == UpdatePreferencesOutcome(u, b) IN
            /\ out.resp.status = 400
            /\ ~out.saves /\ out.paths = {}
            /\ \/ \E f \in Collections :
                    /\ out.resp.message = DuplicateMessage[f]
                    /\ {out.named[i] : i \in 1..Len(out.named)} = RepeatedKeys(b, f)
                    /\ out.named # <<>>
               \/ out.resp.message \in
                    {BusinessMsg.categoryName, BusinessMsg.unitName,
                     BusinessMsg.unitAbbreviation, BusinessMsg.productTypeName})
  /\ [][(resp' # resp /\ \E f \in Collections : resp'.message = DuplicateMessage[f])
          => (resp'.status = 400 /\ UNCHANGED businesses)]_vars

\* A request with the unit abbreviations 'bx' and 'BX' was answered.
DuplicateUnitsAnswered ==
  /\ resp.op = "updatePreferences"
  /\ resp.message = BusinessMsg.duplicateUnits
  /\ Owners # {}


(***************************************************************************)
(* C15.  Replace is all-or-nothing across the supplied collections: when   *)
(* any supplied collection fails its type, duplicate or required-field     *)
(* check, the handler saves nothing, also of the collections that passed   *)
(* before it, and the step that answers leaves every business as it was    *)
(* and starts no save.                                                     *)
(***************************************************************************)
BlankIn(b, f) ==
  \E i \in 1..Len(b[f].items) :
    \/ Trim(b[f].items[i].name) = <<>>
    \/ f = "units" /\ Trim(b[f].items[i].abbreviation) = <<>>

CollectionFails(b, f) ==
  \/ b[f].kind = "string"
  \/ b[f].kind = "array" /\ (RepeatedKeys(b, f) # {} \/ BlankIn(b, f))

ReplaceAllOrNothing ==
  /\ [](\A u \in Owners : \A b \in ReplaceBodies :
          (\E f \in Collections : CollectionFails(b, f)) =>
            LET out == UpdatePreferencesOutcome(u, b) IN
            /\ out.resp.status = 400
            /\ ~out.saves /\ out.paths = {}
            /\ out.preferences = businesses[users[u].business].preferences)
  /\ [][(resp' # resp /\ resp'.op = "updatePreferences" /\ resp'.status # 200)
          => /\ UNCHANGED businesses
             /\ \A p \in Procs : prefReq'[p].pc = "save" => prefReq'[p] = prefReq[p]]_vars

\* A request whose categories pass and whose product types fail the
\* required-field check was answered.
LaterCollectionRejected ==
  /\ resp.op = "updatePreferences"
  /\ resp.message = BusinessMsg.productTypeName
  /\ \A b \in DOMAIN businesses : businesses[b].preferences.categories # <<StoredCategory(Category(Toys))>>
  /\ Owners # {}


(***************************************************************************)
(* C16.  Frame of a successful replace: the collections that the request   *)
(* does not supply keep their stored value, the supplied ones take the     *)
(* submitted value, and name, industry, email, owner and active flag of    *)
(* the business, every other business and every account stay as they were. *)
(* As stated (no other field of the Business changes) the claim fails: the *)
(* save increments the revision counter of the document.                   *)
(***************************************************************************)
\* Request p completes its save with a 200 response in this step.
ReplaceSucceeds(p) ==
  /\ prefReq[p].pc = "save" /\ prefReq'[p].pc = "idle"
  /\ resp'.op = "updatePreferences" /\ resp'.status = 200

\* The claim as stated: nothing but the preferences of a business changes.
ReplaceChangesOnlyPreferences ==
  [][\A p \in Procs : ReplaceSucceeds(p) =>
       \A b \in DOMAIN businesses :
         [businesses'[b] EXCEPT !.preferences = businesses[b].preferences]
           = businesses[b]]_vars

ReplaceChangesOnlySupplied ==
  /\ [](\A u \in Owners : \A b \in ValidReplaceBodies :
          LET out == UpdatePreferencesOutcome(u, b)
              stored == businesses[users[u].business].preferences
          IN out.saves =>
               /\ out.paths \subseteq {f \in Collections : b[f].kind = "array"}
               /\ \A f \in Collections :
                    b[f].kind # "array" => out.preferences[f] = stored[f])
  /\ [][\A p \in Procs : ReplaceSucceeds(p) =>
          LET r == prefReq[p] IN
          /\ users' = users
          /\ \A b \in DOMAIN businesses \ {r.business} :
               businesses'[b] = businesses[b]
          /\ \A f \in Collections :
               businesses'[r.business].preferences[f] =
                 IF f \in r.paths THEN r.preferences[f]
                 ELSE businesses[r.business].preferences[f]
          /\ [businesses'[r.business] EXCEPT
                !.preferences = businesses[r.business].preferences,
                !.version = businesses[r.business].version]
               = businesses[r.business]]_vars

\* A replace of one collection succeeded on a business whose other
\* collection held elements of an earlier replace.
SecondReplaceKeptFirst ==
  /\ resp.op = "updatePreferences" /\ resp.status = 200
  /\ \E b \in DOMAIN businesses :
       /\ businesses[b].version = 2
       /\ businesses[b].preferences.categories # <<>>
       /\ businesses[b].preferences.units # <<>>


(***************************************************************************)
(* C17.  Nothing to update: the handler answers 400 with the message that  *)
(* at least one preference field must be provided exactly for the requests *)
(* that supply none of categories, units and productTypes; it saves        *)
(* nothing then, and the step that answers changes no business.  A request *)
(* that supplies a collection, an empty array included, does not get this  *)
(* answer.                                                                 *)
(***************************************************************************)
SuppliesNothing(b) == \A f \in Collections : b[f].kind = "undefined"

NothingToUpdateRejected ==
  /\ [](\A u \in Owners : \A b \in ValidReplaceBodies :
          LET out == UpdatePreferencesOutcome(u, b) IN
          /\ SuppliesNothing(b) <=> out.resp.message = BusinessMsg.noPreferenceField
          /\ SuppliesNothing(b) => (out.resp.status = 400 /\ ~out.saves)
          /\ (\E f \in Collections : b[f] = Array(<<>>))
               /\ (\A f \in Collections : b[f].items = <<>>)
               => (out.resp.status = 200 /\ out.saves))
  /\ [][(resp' # resp /\ resp'.message = BusinessMsg.noPreferenceField)
          => /\ resp'.status = 400
             /\ UNCHANGED <<users, businesses, prefReq>>]_vars

\* A request of an owner without any of the three collections was answered.
NothingToUpdateAnswered ==
  /\ resp.op = "updatePreferences"
  /\ resp.message = BusinessMsg.noPreferenceField
  /\ Owners # {}

(***************************************************************************)
(* C18.  Rate limiting, for one client IP and one window of each limiter:  *)
(* a login request is handled only while fewer than 5 login requests and   *)
(* fewer than 100 /api requests were counted in the current windows, a     *)
(* registration request only while fewer than 3 registration requests and  *)
(* fewer than 100 /api requests were counted; a request beyond a threshold *)
(* is answered 429 with the message of the limiter, whatever it carries,   *)
(* and leaves accounts, businesses and registrations in flight untouched;  *)
(* after the window of a limiter ends its count starts again at zero, so   *)
(* requests are handled again.                                             *)
(***************************************************************************)
\* The step is a login request that the limiters counted.
LoginCounted == limiter'.auth = limiter.auth + 1

\* The step is a registration request that the limiters counted.
RegisterCounted == limiter'.register = limiter.register + 1

\* The step is a request that went past the limiters to validation.
Handled ==
  \/ /\ resp' # resp \/ users' # users
     /\ resp'.op = "login"
     /\ resp'.status # 429
  \/ \E p \in Single :
       /\ reg[p].pc = "idle"
       /\ \/ reg'[p].pc # "idle"
          \/ resp' # resp /\ resp'.op = "register" /\ resp'.status # 429

RateLimited ==
  /\ [](\A l \in Limiters : limiter[l] \in 0..(Max[l] + 1))
  /\ [][/\ (LoginCounted /\ limiter.auth < AuthMax)
            => (resp'.op = "login" /\ resp'.status # 429
                /\ limiter.api < ApiMax)
        /\ (LoginCounted /\ limiter.auth = AuthMax)
            => (resp' = TooMany("login", "auth")
                /\ UNCHANGED <<users, businesses, reg>>)
        /\ (RegisterCounted /\ limiter.register < RegisterMax)
            => ((\E p \in Single : reg[p].pc = "idle")
                /\ ~(resp' # resp /\ resp'.status = 429)
                /\ limiter.api < ApiMax)
        /\ (RegisterCounted /\ limiter.register = RegisterMax)
            => (resp' = TooMany("register", "register")
                /\ UNCHANGED <<users, businesses, reg>>)
        /\ (limiter'.api = limiter.api + 1 /\ limiter.api = ApiMax)
            => (resp'.status = 429 /\ resp'.message = RateMsg.api
                /\ UNCHANGED <<users, businesses, reg>>
                /\ limiter'.auth = limiter.auth
                /\ limiter'.register = limiter.register)
        /\ Handled
            => (/\ limiter'.api = limiter.api + 1
                /\ limiter'.api <= ApiMax
                /\ \/ LoginCounted /\ limiter'.auth <= AuthMax
                   \/ RegisterCounted /\ limiter'.register <= RegisterMax)
        /\ (resp' # resp /\ resp'.status = 429)
            => UNCHANGED <<users, businesses, reg>>
        /\ (\E l \in Limiters : limiter'[l] < limiter[l])
            => (\E l \in Limiters :
                  /\ limiter' = [limiter EXCEPT ![l] = 0]
                  /\ UNCHANGED <<users, businesses, reg, resp>>)]_vars

\* The sixth login request of a window was refused although the account
\* exists and is active.
SixthLoginRefused ==
  /\ resp = TooMany("login", "auth")
  /\ limiter.auth = AuthMax + 1
  /\ limiter.api <= ApiMax
  /\ \E u \in DOMAIN users : users[u].isActive

(***************************************************************************)
(* C19.  Readers during registrations.  In every state that registrations  *)
(* running together can reach, between any two of their steps: no login    *)
(* finds an account without a business, the guard resolves no account      *)
(* whose business reference is absent or dangling, the current-session     *)
(* read carries a business and the profile read an owner; the account a    *)
(* transaction has staged (with or without its business reference) is not  *)
(* in the collection and its email is not found there.  The steps before   *)
(* the commit change neither collection, and a step that adds accounts     *)
(* adds their businesses with them; no business ever leaves the            *)
(* collection, so a populate that runs after the read of the account finds *)
(* it.                                                                     *)
(***************************************************************************)
\* The registrations whose open transaction holds a staged account.
Staged == {p \in Procs : reg[p].session = "active" /\ reg[p].tempUser.id # NoId}

ReadersSeeWholePairs ==
  /\ [](/\ \A raw \in LoginBodies :
            LoginOutcome(raw).resp.message # AuthMsg.noBusiness
        /\ \A token \in Tokens :
            LET id == Protect("read", token).user IN
            id # NoId =>
              /\ users[id].business # NoId
              /\ Populated(businesses, users[id]) # NoDoc
              /\ GetMeOutcome(id).resp.status = 200
              /\ GetMeOutcome(id).business # NoDoc
              /\ GetProfileOutcome(id).resp.status = 200
              /\ GetProfileOutcome(id).owner = id
        /\ \A b \in DOMAIN businesses : businesses[b].owner \in DOMAIN users
        /\ \A p \in Staged :
            /\ reg[p].tempUser.id \notin DOMAIN users
            /\ FindByEmail(users, reg[p].body.email) = {}
            /\ \A raw \in LoginBodies :
                 LoginSanitized(raw).email = reg[p].body.email
                   => LoginOutcome(raw).resp.status \in {400, 401})
  /\ [][/\ (\E p \in Procs : reg[p].pc # "commit" /\ reg'[p] # reg[p])
            => (DOMAIN users' = DOMAIN users /\ businesses' = businesses)
        /\ \A u \in DOMAIN users' \ DOMAIN users :
            /\ users'[u].business \in DOMAIN businesses' \ DOMAIN businesses
            /\ businesses'[users'[u].business].owner = u
        /\ DOMAIN businesses \subseteq DOMAIN businesses'
        /\ DOMAIN users \subseteq DOMAIN users']_vars

\* One registration is committed and read while the other has staged its
\* account without a business reference.
ReadWhileOtherStaged ==
  /\ resp.op = "getProfile" /\ resp.status = 200
  /\ DOMAIN users # {}
  /\ \E p \in Procs :
       /\ reg[p].pc = "saveBusiness"
       /\ reg[p].txUsers[reg[p].tempUser.id].business = NoId

(***************************************************************************)
(* C20.  Concurrent replacements of the preferences of one business are    *)
(* last-write-wins: every collection a reader finds is empty (as at        *)
(* registration) or is the whole normalized collection of one request,     *)
(* never a mix of two; and a replacement in flight whose save reaches the  *)
(* store is answered 200 and leaves its collections in the store, whatever *)
(* another replacement saved since it loaded the business.                 *)
(***************************************************************************)
\* The normalized collections `f` that the accepted requests of `u` carry.
Submissions(u, f) ==
  {UpdatePreferencesOutcome(u, b).preferences[f] :
     b \in {c \in ValidReplaceBodies :
              c[f].kind = "array" /\ UpdatePreferencesOutcome(u, c).saves}}

\* Every stored collection is empty or one whole submission.
WholeCollections ==
  \A u \in Owners : \A f \in Collections :
    LET stored == businesses[users[u].business].preferences[f] IN
    stored = <<>> \/ stored \in Submissions(u, f)

LastWriteWins ==
  /\ [](WholeCollections
        /\ \A u \in Owners :
             GetPreferencesOutcome(u).preferences
               = businesses[users[u].business].preferences)
  /\ [][\A p \in Procs :
          (prefReq[p].pc = "save" /\ prefReq'[p].pc = "idle"
             /\ resp'.message # MsgInternal)
          => /\ resp'.status = 200
             /\ \A f \in prefReq[p].paths :
                  businesses'[prefReq[p].business].preferences[f]
                    = prefReq[p].preferences[f]]_vars

(***************************************************************************)
(* C21.  Logout is stateless: a logout with a token the guard accepts is   *)
(* answered 200 'Logged out successfully' and changes no account, no       *)
(* business and no request in flight, so that every token the guard        *)
(* accepted before the logout it accepts after it; a token stops being     *)
(* accepted only in a step that closes its account.                        *)
(***************************************************************************)
\* The guard accepts `token` on the accounts `us`.
Admits(us, token) ==
  token.kind = "jwt" /\ token.id \in DOMAIN us /\ us[token.id].isActive

LogoutStateless ==
  /\ [](\A token \in Tokens :
          LET guard == Protect("logout", token) IN
          /\ guard.user # NoId <=> Admits(users, token)
          /\ guard.user # NoId =>
               /\ LogoutOutcome(guard.user).resp
                    = Response("logout", 200, AuthMsg.loggedOut, NoToken)
               /\ LogoutOutcome(guard.user).users = users)
  /\ [][/\ (resp' # resp /\ resp'.op = "logout")
            => /\ UNCHANGED <<users, businesses, reg, prefReq, limiter>>
               /\ resp'.status = 200 <=> resp'.message = AuthMsg.loggedOut
               /\ resp'.status \in {200, 401}
        /\ \A token \in Tokens :
            (Admits(users, token) /\ ~Admits(users', token))
              => (users[token.id].isActive /\ ~users'[token.id].isActive
                  /\ UNCHANGED resp)]_vars

\* A logout was answered 200 and the token of the account is still one the
\* guard accepts.
LoggedOutStillAdmitted ==
  /\ resp = Response("logout", 200, AuthMsg.loggedOut, NoToken)
  /\ \E u \in DOMAIN users : Protect("getMe", generateToken(u)).user = u

(***************************************************************************)
(* C22.  The stored hash changes when and only when the plaintext is set.  *)
(* Every stored and every staged password is the hash, taken once, of a    *)
(* plaintext, never the plaintext and never the hash of a hash; the staged *)
(* one is the hash of the registered password, and the second save of      *)
(* registration leaves it as the first save made it; the committed account *)
(* holds the staged hash; a step that changes the lastLogin of an account  *)
(* leaves its hash alone; the hash of a committed account changes only in  *)
(* a password rotation answered 200, and an accepted rotation leaves the   *)
(* hash of its new password.                                               *)
(***************************************************************************)
HashedOnce(password) == password.depth = 1

HashFollowsSecret ==
  /\ [](/\ \A u \in DOMAIN users : HashedOnce(users[u].password)
        /\ \A p \in Procs : \A u \in DOMAIN reg[p].txUsers :
             /\ HashedOnce(reg[p].txUsers[u].password)
             /\ reg[p].txUsers[u].password.text = reg[p].body.password)
  /\ [][/\ \A p \in Procs : \A u \in DOMAIN reg[p].txUsers :
             u \in DOMAIN reg'[p].txUsers
               => reg'[p].txUsers[u].password = reg[p].txUsers[u].password
        /\ \A u \in DOMAIN users' \ DOMAIN users :
             \E p \in Procs : /\ u \in DOMAIN reg[p].txUsers
                              /\ users'[u].password = reg[p].txUsers[u].password
                              /\ users'[u].business # NoId
        /\ \A u \in DOMAIN users \cap DOMAIN users' :
             /\ users'[u].lastLogin # users[u].lastLogin
                  => users'[u].password = users[u].password
             /\ users'[u].password # users[u].password
                  => /\ resp' = Response("updatePassword", 200,
                                         AuthMsg.passwordUpdated, generateToken(u))
                     /\ \E b \in UpdatePasswordBodies : \E salt \in Salts :
                          users'[u].password
                            = BcryptHash(Plain(b.newPassword), salt)
                     /\ UNCHANGED <<businesses, reg>>
                     /\ users'[u].lastLogin = users[u].lastLogin]_vars

\* An account whose password was rotated to another one has logged in.
LoggedInAfterRotation ==
  /\ resp.op = "login" /\ resp.status = 200
  /\ \E u \in DOMAIN users :
       /\ resp.token = generateToken(u)
       /\ users[u].lastLogin # NoTime
       /\ users[u].password.text = PwTwo
       /\ HashedOnce(users[u].password)
       /\ \A v \in DOMAIN users : users[v].email = ToLower(EmailA)

(***************************************************************************)
(* C23.  The optional guard never rejects: for every Authorization header  *)
(* (none, malformed, an invalid or expired token, the token of a missing   *)
(* or closed account, a valid token) and whether or not the lookup of the  *)
(* account fails, it sends no response and hands the request to the next   *)
(* handler; it attaches an account exactly when the token verifies and the *)
(* lookup returns an existing active account, and then the account of the  *)
(* token.  A request through the guard changes nothing.                    *)
(***************************************************************************)
OptionalAuthNeverRejects ==
  /\ [](\A header \in Headers : \A storeFails \in BOOLEAN :
          LET guard == OptionalAuth(header, storeFails) IN
          /\ guard.resp = Response("next", 0, "", NoToken)
          /\ guard.user # NoId <=> (Admits(users, header) /\ ~storeFails)
          /\ guard.user # NoId => guard.user = header.id
          /\ (guard.user # NoId /\ header \in Tokens)
               => Protect("optionalAuth", header).user = guard.user)
  /\ [][(resp' # resp /\ resp'.op = "optionalAuth")
          => /\ resp'.status = 0
             /\ UNCHANGED <<users, businesses, reg, prefReq, limiter>>
             /\ resp'.token # NoToken => Admits(users, resp'.token)]_vars

\* A request with the token of a closed account went through the guard
\* without an account attached.
OptionalPassedClosedAccount ==
  /\ resp = Response("optionalAuth", 0, "", NoToken)
  /\ \E u \in DOMAIN users :
       /\ ~users[u].isActive
       /\ OptionalAuth(generateToken(u), FALSE).user = NoId
       /\ Protect("optionalAuth", generateToken(u)).resp.status = 401

(***************************************************************************)
(* C24.  A read of the preferences of a business whose document has no     *)
(* preferences is answered 200 with three empty collections and all counts *)
(* 0, and once it is answered the stored document holds the three empty    *)
(* collections; a read of a business that has preferences returns them and *)
(* changes no business.                                                    *)
(***************************************************************************)
ReadInitializesMissingPreferences ==
  /\ [](\A u \in Owners :
          LET stored == businesses[users[u].business]
              out == GetPreferencesOutcome(u)
          IN /\ out.resp.status = 200
             /\ stored.preferences = MissingPreferences
                  => /\ out.preferences = EmptyPreferences
                     /\ \A f \in DOMAIN out.totals : out.totals[f] = 0
             /\ stored.preferences # MissingPreferences
                  => (out.preferences = stored.preferences /\ ~out.saves))
  /\ [][(resp' # resp /\ resp'.op = "getPreferences" /\ resp'.status = 200)
          => \A b \in DOMAIN businesses :
               IF businesses[b].preferences = MissingPreferences
               THEN businesses'[b].preferences \in {MissingPreferences, EmptyPreferences}
                    /\ (\A u \in Owners : users[u].isActive /\ users[u].business = b)
                         => businesses'[b].preferences = EmptyPreferences
               ELSE businesses'[b] = businesses[b]]_vars

(***************************************************************************)
(* C25.  After an accepted replace every stored element of a supplied      *)
(* collection is the normalized form of the submitted element at the same  *)
(* position: the name trimmed; the abbreviation of a unit trimmed and in   *)
(* upper case; a missing unit type 'quantity' and a given one kept; a      *)
(* missing color '#6366f1' and a given one trimmed; missing                *)
(* requiresSerialNumber and requiresExpiryDate false; a missing            *)
(* trackInventory true; a missing isActive true, an explicit false kept.   *)
(* The stored collection has the length and the order of the submitted     *)
(* one, and it is what the store holds after the step that answers 200.    *)
(***************************************************************************)
\* An optional flag of a request as the claim reads it.
FlagOr(value, missing) ==
  IF value = "undefined" THEN missing ELSE IF value = "false" THEN FALSE ELSE TRUE

NormalizedAs(f, e, stored) ==
  /\ stored.name = Trim(e.name)
  /\ stored.isActive = FlagOr(e.isActive, TRUE)
  /\ f = "categories" =>
       stored.color = IF e.color = Absent THEN <<"#", "6", "3", "6", "6", "f", "1">>
                      ELSE Trim(e.color)
  /\ f = "units" =>
       /\ stored.abbreviation = ToUpper(Trim(e.abbreviation))
       /\ stored.type = IF e.type = Absent
                        THEN <<"q", "u", "a", "n", "t", "i", "t", "y">>
                        ELSE e.type
  /\ f = "productTypes" =>
       /\ stored.requiresSerialNumber = FlagOr(e.requiresSerialNumber, FALSE)
       /\ stored.requiresExpiryDate = FlagOr(e.requiresExpiryDate, FALSE)
       /\ stored.trackInventory = FlagOr(e.trackInventory, TRUE)

ValidElementBodies == {b \in ElementBodies : PreferencesValidationErrors(b) = {}}

\* The requests of `u` that the handler accepts in the current state.
Accepted(u) ==
  {b \in ValidElementBodies : UpdatePreferencesOutcome(u, b).saves}

ElementsNormalized ==
  /\ [](\A u \in Owners : \A b \in Accepted(u) : \A f \in Collections :
          LET stored == UpdatePreferencesOutcome(u, b).preferences[f] IN
          b[f].kind = "array" =>
            /\ Len(stored) = Len(b[f].items)
            /\ \A i \in 1..Len(stored) : NormalizedAs(f, b[f].items[i], stored[i]))
  /\ [][(resp' # resp /\ resp'.message = BusinessMsg.preferencesUpdated)
          => \E u \in Owners : \E b \in Accepted(u) : \A f \in Collections :
               businesses'[users[u].business].preferences[f]
                 = IF b[f].kind = "array"
                   THEN UpdatePreferencesOutcome(u, b).preferences[f]
                   ELSE businesses[users[u].business].preferences[f]]_vars

\* The store holds a category kept inactive next to one with a given
\* color, after a replace of the categories.
InactiveCategoryStored ==
  /\ resp.message = BusinessMsg.preferencesUpdated
  /\ \E b \in DOMAIN businesses :
       LET stored == businesses[b].preferences.categories IN
       /\ Len(stored) = 2
       /\ stored[1].name = Toys /\ ~stored[1].isActive
       /\ stored[1].color = ColorDefault
       /\ stored[2].color = ColorRed /\ stored[2].isActive

(***************************************************************************)
(* C26.  A failure of the store while a profile update is saved is         *)
(* answered 400 with a message that names the field, never as an internal  *)
(* error: a name over 100 characters, an industry or a currency outside    *)
(* its enumeration, a registration number that another business holds.     *)
(* Nothing is saved then, the step that answers 400 changes no business,   *)
(* and no two businesses ever hold the same registration number.           *)
(***************************************************************************)
\* The value the update of `b` gives the field `f` of the business of `u`.
FieldAfter(u, b, f) ==
  LET old == businesses[users[u].business] IN
  IF f = "registrationNumber"
  THEN IF b[f] = NotSent THEN old[f] ELSE Trim(b[f])
  ELSE IF b[f] = Absent THEN old[f] ELSE IF f = "name" THEN Trim(b[f]) ELSE b[f]

\* The store refuses the update of `b` for this reason.
Refused(u, b) ==
  [name |-> Len(FieldAfter(u, b, "name")) > 100,
   industry |-> FieldAfter(u, b, "industry") = Bogus,
   currency |-> FieldAfter(u, b, "currency") = Bogus,
   registrationNumber |->
     /\ FieldAfter(u, b, "registrationNumber") # NotSent
     /\ \E other \in DOMAIN businesses \ {users[u].business} :
          businesses[other].registrationNumber
            = FieldAfter(u, b, "registrationNumber")]

StoreFailureAnswered400 ==
  /\ [](/\ \A u \in Owners : \A b \in ProfileFieldBodies :
            LET out == UpdateProfileOutcome(u, b)
                why == Refused(u, b)
            IN /\ out.resp.status \in {200, 400}
               /\ out.resp.status = 400 <=> \E f \in DOMAIN why : why[f]
               /\ out.resp.status = 400 => ~out.saves
               /\ why.name =>
                    out.resp.message = "Business name cannot exceed 100 characters"
               /\ (why.industry /\ ~why.name) =>
                    out.resp.message
                      = "'{VALUE}' is not a valid enum value for path 'industry'."
               /\ (why.currency /\ ~why.name) =>
                    out.resp.message
                      = "'{VALUE}' is not a valid enum value for path 'currency'."
               /\ (why.registrationNumber
                     /\ ~why.name /\ ~why.industry /\ ~why.currency) =>
                    out.resp.message = "Duplicate value for field: registrationNumber"
        /\ \A b1, b2 \in DOMAIN businesses :
            (b1 # b2 /\ businesses[b1].registrationNumber # NotSent)
              => businesses[b1].registrationNumber # businesses[b2].registrationNumber)
  /\ [][(resp' # resp /\ resp'.op = "updateProfile" /\ resp'.status # 200)
          => UNCHANGED businesses]_vars

\* The registration number of one business was refused to another.
DuplicateRegistrationNumberAnswered ==
  /\ resp = Response("updateProfile", 400,
                     "Duplicate value for field: registrationNumber", NoToken)
  /\ Cardinality(DOMAIN businesses) = 2
  /\ Cardinality({b \in DOMAIN businesses :
                    businesses[b].registrationNumber = RegNumber}) = 1

(***************************************************************************)
(* C27.  The session of register: on every path the session is ended once  *)
(* and its transaction is committed or aborted, never both.  The catch     *)
(* block, which calls abortTransaction and then endSession, is entered     *)
(* only with a transaction on which commitTransaction was not called and   *)
(* with a session that is not ended; it answers the client (400 or 500);   *)
(* and no registration whose account is in the collection is in the catch  *)
(* block.                                                                  *)
(***************************************************************************)
SessionEndedOnce ==
  /\ [](\A p \in Procs :
          reg[p].pc = "catch" =>
            /\ reg[p].session = "active"
            /\ reg[p].tempUser.id \notin DOMAIN users
            /\ RegisterCatchResponse(reg[p].session, reg[p].error).status
                 \in {400, 500})
  /\ [][\A p \in Procs :
          (reg[p].pc # "idle" /\ reg'[p].pc = "idle")
            => /\ resp'.op = "register"
               /\ resp'.status \in {201, 400, 500}
               /\ resp'.status = 201 <=> reg[p].pc = "commit"]_vars

(***************************************************************************)
(* C28.  Tenant isolation.  A profile update and a preferences replacement *)
(* made with the token of an account change no business but the one the    *)
(* account references, whatever owner, active flag, subscription or        *)
(* business id the body names; a profile update leaves the owner, the      *)
(* active flag and the subscription fields of every business as they       *)
(* were; the two reads change no business and answer from the business of  *)
(* the account.                                                            *)
(***************************************************************************)
OnlyOwnBusiness(token) ==
  \A b \in DOMAIN businesses :
    businesses'[b] # businesses[b]
      => /\ token.kind = "jwt"
         /\ token.id \in DOMAIN users
         /\ b = users[token.id].business

StatusFieldsKept ==
  \A b \in DOMAIN businesses :
    /\ businesses'[b].owner = businesses[b].owner
    /\ businesses'[b].isActive = businesses[b].isActive
    /\ businesses'[b].subscriptionStatus = businesses[b].subscriptionStatus
    /\ businesses'[b].subscriptionPlan = businesses[b].subscriptionPlan

TenantIsolation ==
  /\ [](\A u \in DOMAIN users :
          users[u].business \in DOMAIN businesses =>
            /\ GetPreferencesOutcome(u).preferences
                 = HydratedPreferences(businesses[users[u].business])
            /\ GetProfileOutcome(u).owner
                 \in {NoId, businesses[users[u].business].owner})
  /\ [][/\ \A call \in Calls(TenantProfileBodies) : \A storeFails \in BOOLEAN :
            UpdateProfileRequest(call, storeFails)
              => OnlyOwnBusiness(call[1]) /\ StatusFieldsKept
        /\ \A call \in Calls(TenantPreferencesBodies) : \A storeFails \in BOOLEAN :
            UpdatePreferencesRequest(call, storeFails)
              => OnlyOwnBusiness(call[1]) /\ StatusFieldsKept
        /\ resp'.op \in {"getProfile", "getPreferences"}
              => businesses' = businesses]_vars

\* The first tenant has renamed its business with a body that names the
\* second business; the second business has its name.
RenamedOwnBusinessOnly ==
  /\ resp.op = "updateProfile" /\ resp.status = 200
  /\ DOMAIN businesses = BusinessIds
  /\ \E b \in BusinessIds : \E c \in BusinessIds :
       /\ businesses[b].name = Trim(ShopTwo)
       /\ businesses[c].name = Trim(ShopName)
       /\ businesses[b].preferences # businesses[c].preferences

(***************************************************************************)
(* C29.  Two registrations with the same email that run together: no two   *)
(* accounts hold the same email; a registration is answered 201 only when  *)
(* no account held its email before its commit, and its account and        *)
(* business are then stored; a registration answered otherwise changes     *)
(* neither collection, and its account is not stored.                      *)
(***************************************************************************)
OneWinnerPerEmail ==
  /\ [](\A u \in DOMAIN users : \A v \in DOMAIN users :
          users[u].email = users[v].email => u = v)
  /\ [][/\ \A p \in Procs :
            (reg[p].pc # "idle" /\ reg'[p].pc = "idle")
              => IF resp'.status = 201
                 THEN /\ FindByEmail(users, reg[p].tempUser.email) = {}
                      /\ reg[p].tempUser.id \in DOMAIN users'
                      /\ reg[p].business.id \in DOMAIN businesses'
                 ELSE /\ resp'.status \in {0, 400, 500}
                      /\ users' = users /\ businesses' = businesses
                      /\ \A u \in DOMAIN reg[p].txUsers : u \notin DOMAIN users'
                      /\ \A b \in DOMAIN reg[p].txBusinesses :
                           b \notin DOMAIN businesses'
        /\ (resp'.op = "register" /\ resp'.status # 201)
              => users' = users /\ businesses' = businesses]_vars

\* Both requests passed the lookup; one has staged its account, the insert
\* of the other with the same email was refused.
SecondInsertRefused ==
  \E p \in Procs : \E q \in Procs \ {p} :
    /\ reg[p].pc = "catch" /\ reg[p].error = "WriteConflict"
    /\ reg[q].session = "active"
    /\ FindByEmail(reg[q].txUsers, ToLower(Trim(reg[p].body.email))) # {}
    /\ FindByEmail(users, ToLower(Trim(reg[p].body.email))) = {}

(***************************************************************************)
(* C30.  A login answered other than 200 carries no token and changes      *)
(* neither collection; a 403 is answered only to a body whose password     *)
(* matches the hash of an active account, and the answer to a body whose   *)
(* password matches no account is the same whatever the businesses are     *)
(* (none stored, or each with its active flag inverted); a login answered  *)
(* 200 changes the last login of the account it logs in, to the current    *)
(* time, and nothing else.                                                 *)
(***************************************************************************)
PasswordMatches(raw) ==
  \E u \in FindByEmail(users, LoginSanitized(raw).email) :
    users[u].isActive /\ BcryptCompare(LoginSanitized(raw).password, users[u].password)

BusinessesInverted == [b \in DOMAIN businesses |-> [businesses[b] EXCEPT !.isActive = ~@]]

====
